---- MODULE Spec2Model ----
(***************************************************************************)
(* SocialSpark: the Agent Runtime (src/core/agent.py), the Task model      *)
(* (src/core/models.py) and the Content & Scheduling Agent with its        *)
(* scheduler -> publish-queue -> drain-loop bridge                         *)
(* (src/agents/content_scheduler/agent.py).                                *)
(*                                                                         *)
(* One process of the ContentSchedulerAgent is modelled.  Three execution  *)
(* contexts take steps: the main thread (start()), the scheduler's timer   *)
(* threads (publish_post_wrapper) and the asyncio event loop (HTTP         *)
(* endpoints, background task processing, the drain loop).  Coroutines on  *)
(* the event loop run to their next await before another coroutine runs;   *)
(* timer threads interleave with everything.                               *)
(***************************************************************************)
EXTENDS Integers, Sequences, FiniteSets, TLC

\* ---------------------------------------------------------------- bounds
MaxObj == 1        \* tasks a run accepts (the receive specification: MaxReceived)
MaxPosts == 2      \* ScheduledPost ids (persisted by an earlier run or created)
MaxPersisted == 1  \* posts with a pending job left in the stores by an earlier run
MaxCalls == 2      \* cap of the per-post count of _publish_post invocations
MaxReceived == 2   \* Task objects a run of the receive specification creates
MaxTime == 2       \* ticks of the clock
MaxLen == 4        \* characters of a raw text, and the largest small limit

TaskIds == {"t1", "t2"}
Objs == 1..MaxReceived
PostIds == 1..MaxPosts

\* The two coroutines of run() that drain the Publish Queue: the startup event
\* process_publish_queue and the task check_queue_periodically it creates.
STARTUP == "process_publish_queue"
PERIODIC == "check_queue_periodically"
Drainers == {STARTUP, PERIODIC}

\* ------------------------------------------------------ src/core/models.py
PENDING == "pending"
IN_PROGRESS == "in_progress"
COMPLETED == "completed"
FAILED == "failed"
CANCELED == "canceled"
TaskStatus == {PENDING, IN_PROGRESS, COMPLETED, FAILED, CANCELED}
Terminal == {COMPLETED, FAILED, CANCELED}

\* PostStatus values the code writes
SCHEDULED == "scheduled"
PUBLISHED == "published"

\* SocialPlatform: the strings SocialPlatform(...) accepts
SocialPlatform == {"facebook", "twitter", "instagram", "linkedin"}

AgentId == "content-scheduler-agent"
OtherAgentId == "facebook-posting-agent"
FacebookAgentId == "facebook-posting-agent"
\* The agents main.py can launch (--agents content-scheduler facebook).
Agents == {AgentId, FacebookAgentId}

NoError == "<absent>"    \* metadata has no "error" key
NoHandler == "<none>"
NoPost == [status |-> "<absent>", target_platforms |-> <<>>, platform_post_ids |-> {},
           schedule_time |-> "<absent>", platform_specific_content |-> {}, updated_at |-> 0]
NoRecord == [status |-> "<absent>", error |-> NoError, post_id |-> 0]
NoContent == [text |-> <<"<none>">>, hashtags |-> <<>>]
\* The ids of the tasks sent to the facebook agent, and an id it has no task for.
FbTaskIds == {"p1", "p2"}
NoApiResponse == [success |-> FALSE, post_id |-> <<>>, error |-> "<no call>"]
NoFbTask == [payload |-> "<none>", status |-> PENDING, error |-> NoError,
             facebook_post_id |-> <<>>, response |-> NoApiResponse,
             stored |-> "<absent>", report_sent |-> FALSE, pc |-> "none"]
NoObj == [id |-> "<none>", type |-> "<none>", status |-> PENDING, data |-> "<none>",
          error |-> NoError, post_id |-> 0, created_at |-> 0, updated_at |-> 0]

\* ------------------------------------------------------------------ state
VARIABLES
  task_handlers,   \* BaseAgent.task_handlers: task type -> handler name
  tasks,           \* BaseAgent.tasks: task id -> Task object (0: key absent)
  heap,            \* the Task objects, by object number
  nobj,            \* Task objects created so far
  pc,              \* position of the background run of _process_task(object)
  exc,             \* str(e) of the exception a handler raised, per object
  response,        \* the answer to the latest POST /tasks
  posts,           \* PostStorage collection: post id -> ScheduledPost
  jobs,            \* pending jobs of the scheduler's job store: [id, run_date, arg]
  task_store,      \* TaskStorage collection: task id -> the document save_task wrote
  sched_running,   \* self.scheduler.running
  has_queue,       \* hasattr(self, '_publish_queue')
  publish_queue,   \* self._publish_queue
  start_pc,        \* position of the main thread in start()
  fire_pc,         \* position of the timer thread running publish_post_wrapper(p)
  serving,         \* the startup event has finished: requests are served
  drain_pc,        \* position of each drain coroutine (startup event, periodic task)
  drain_snap,      \* per coroutine: rest of list(self._publish_queue) being iterated
  drain_cur,       \* per coroutine: post id whose _publish_post is awaited (0: none)
  drain_todo,      \* per coroutine: platforms of drain_cur still to dispatch
  publish_calls,   \* history: invocations of _publish_post per post id
  appended,        \* history: post ids a firing appended, per post id
  passes,          \* history: per post id, drain passes begun/ended after its append
  pass_left,       \* history: per coroutine, ids of the pass's list not yet invoked in it
  pass_failed,     \* history: per coroutine, ids whose invocation raised in its current pass
  failed_publish,  \* history: post ids for which an invocation of _publish_post raised
  reachable,       \* agent ids for which POST {base_url}/agents/<id>/tasks reaches the agent
  fb_inbox,        \* facebook agent: post ids of accepted publish_post tasks not yet processed
  fb_done,         \* facebook agent: its processed publish_post tasks
  dispatched,      \* history: publish_post dispatches of _publish_post, with their outcome
  updates_sent,    \* history: post_status_update tasks sent per post id and platform
  now,             \* the reading of datetime.now(), in ticks
  raw_text,        \* adapt_content_for_platform: its argument raw_text
  max_text_length, \* adapt_content_for_platform: rules.max_text_length
  adapted,         \* adapt_content_for_platform: the content it returned
  registered,      \* history: per task type, the handler passed to the latest registration
  handled_by,      \* history: per Task object, the handler _process_task awaited for it
  fb_tasks,        \* facebook agent: BaseAgent.tasks, task id -> its Task
  fb_sent,         \* history: the post_status_update tasks the facebook agent sent, in order
  recorded,        \* history: platform post ids _handle_post_status_update saved, per post
  publish_sent,    \* history: publish_post tasks sent per post id and target agent id
  not_found        \* history: post ids for which an invocation of _publish_post got no post

vars == <<task_handlers, tasks, heap, nobj, pc, exc, response, posts, jobs, task_store,
          sched_running, has_queue, publish_queue, start_pc, fire_pc, serving,
          drain_pc, drain_snap, drain_cur, drain_todo, publish_calls,
          appended, passes, pass_left, pass_failed, failed_publish,
          reachable, fb_inbox, fb_done, dispatched, updates_sent, now,
          raw_text, max_text_length, adapted,
          registered, handled_by, fb_tasks, fb_sent, recorded, publish_sent,
          not_found>>

runtimeVars == <<task_handlers, tasks, heap, nobj, pc, exc, response>>
storeVars == <<posts, jobs, task_store>>
queueVars == <<has_queue, publish_queue>>
startVars == <<sched_running, start_pc>>
drainVars == <<serving, drain_pc, drain_snap, drain_cur, drain_todo>>
histVars == <<publish_calls, appended, passes, pass_left, pass_failed, failed_publish>>
dispatchVars == <<reachable, fb_inbox, fb_done, dispatched, updates_sent>>
adaptVars == <<raw_text, max_text_length, adapted>>
handlerVars == <<registered, handled_by>>
postingVars == <<fb_tasks, fb_sent>>
auditVars == <<recorded, publish_sent, not_found>>

\* ------------------------------------------------- request payloads (inputs)
\* The "application/json" data part of a task, as the dict the handlers read
\* with data.get(...).  json = FALSE: the task carries no such data part.
\* Absent or empty values are "" / <<>> / 0 (all falsy in the handlers' tests).
BaseData == [json |-> TRUE, user_id |-> "u1", raw_text |-> "Hello #world",
             target_platforms |-> <<"facebook", "twitter">>,
             schedule_time |-> "2030-01-01T00:00:00Z",
             socialspark_post_id |-> 0, platform |-> "", status |-> "",
             platform_post_id |-> ""]

Data(n) ==
  CASE n = "sched_ok"         -> BaseData
    [] n = "sched_one_valid"  -> [BaseData EXCEPT !.target_platforms = <<"myspace", "facebook">>]
    [] n = "sched_twice"      -> [BaseData EXCEPT !.target_platforms = <<"facebook", "facebook">>]
    [] n = "no_json"          -> [BaseData EXCEPT !.json = FALSE]
    [] n = "no_user_id"       -> [BaseData EXCEPT !.user_id = ""]
    [] n = "no_raw_text"      -> [BaseData EXCEPT !.raw_text = ""]
    [] n = "no_platforms"     -> [BaseData EXCEPT !.target_platforms = <<>>]
    [] n = "no_schedule_time" -> [BaseData EXCEPT !.schedule_time = ""]
    [] n = "bad_platforms"    -> [BaseData EXCEPT !.target_platforms = <<"myspace">>]
    [] n = "bad_time"         -> [BaseData EXCEPT !.schedule_time = "tomorrow"]
    [] n = "upd_success"      -> [BaseData EXCEPT !.socialspark_post_id = 1, !.platform = "facebook",
                                                  !.status = "success", !.platform_post_id = "fb_1"]
    [] n = "upd_failure"      -> [BaseData EXCEPT !.socialspark_post_id = 1, !.platform = "facebook",
                                                  !.status = "failure"]
    [] n = "upd_success_tw"   -> [BaseData EXCEPT !.socialspark_post_id = 1, !.platform = "twitter",
                                                  !.status = "success", !.platform_post_id = "tw_1"]
    [] n = "upd_no_post_id"   -> [BaseData EXCEPT !.platform = "facebook", !.status = "success"]
    [] OTHER                  -> [BaseData EXCEPT !.json = FALSE]

\* The task types a client may send, and the payloads sent with each.
TaskTypes == {"process_and_schedule_post", "post_status_update", "custom", "unknown_type"}

DataOf(type) ==
  CASE type = "process_and_schedule_post" ->
         {"sched_ok", "sched_one_valid", "no_json", "no_user_id", "no_raw_text",
          "no_platforms", "no_schedule_time", "bad_platforms", "bad_time"}
    [] type = "post_status_update" -> {"upd_success", "upd_failure", "upd_no_post_id"}
    [] OTHER -> {"opaque"}

\* One payload per outcome of each handler: accepted and valid, rejected by
\* the first and by the last validation check.
CoreDataOf(type) ==
  CASE type = "process_and_schedule_post" -> {"sched_ok", "no_json", "bad_time"}
    [] type = "post_status_update" -> {"upd_success", "upd_no_post_id"}
    [] OTHER -> {"opaque"}

\* str(e) of the exceptions a handler registered through register_task_handler
\* may raise; "" is str(AssertionError()) or str(asyncio.TimeoutError()).
ExcMessages == {"", "boom"}

\* ----------------------------------------------------------- pure helpers
\* Task.update_status: sets the status, whatever the current one is, and
\* updated_at to datetime.now().
update_status(task, status) == [task EXCEPT !.status = status, !.updated_at = now]

\* The Task FastAPI builds from the body of POST /tasks.  created_at and
\* updated_at come with the body: create_task of the sender set both to its
\* datetime.now() at sent_at.
request_task(id, type, data, sent_at) ==
  [id |-> id, type |-> type, status |-> PENDING, data |-> data,
   error |-> NoError, post_id |-> 0, created_at |-> sent_at, updated_at |-> sent_at]

\* Lines 189-198 of _handle_process_schedule_post: the members of
\* target_platforms that SocialPlatform(platform_str.lower()) accepts, in order.
RECURSIVE platform_list(_)
platform_list(target_platforms) ==
  IF target_platforms = <<>> THEN <<>>
  ELSE IF Head(target_platforms) \in SocialPlatform
       THEN <<Head(target_platforms)>> \o platform_list(Tail(target_platforms))
       ELSE platform_list(Tail(target_platforms))

\* The keys of self.adaptation_rules: every member of SocialPlatform has rules.
RulePlatforms == {"twitter", "facebook", "instagram", "linkedin"}

\* The keys of post.platform_specific_content after the adaptation loop of
\* _handle_process_schedule_post: the platforms of the list that have rules.
adapted_platforms(platforms) ==
  {platforms[i] : i \in {k \in 1..Len(platforms) : platforms[k] \in RulePlatforms}}

\* datetime.fromisoformat(s.replace('Z', '+00:00')): TRUE when it parses.
fromisoformat_ok(s) == s \in {"2030-01-01T00:00:00Z", "2030-01-02T00:00:00+00:00"}

\* Variant of the validation that accepts a list in which no platform is
\* supported.
schedule_validation_error_Lax(d) ==
  IF ~d.json THEN "No content data found in task"
  ELSE IF d.user_id = "" THEN "user_id is required"
  ELSE IF d.raw_text = "" THEN "raw_text is required"
  ELSE IF d.target_platforms = <<>> THEN "target_platforms is required"
  ELSE IF d.schedule_time = "" THEN "schedule_time is required"
  ELSE IF ~fromisoformat_ok(d.schedule_time) THEN "Invalid schedule time format"
  ELSE NoError

\* The ValueError text _handle_process_schedule_post raises for the data
\* before it creates the post, in the order of its checks; NoError when valid.
schedule_validation_error(d) ==
  IF ~d.json THEN "No content data found in task"
  ELSE IF d.user_id = "" THEN "user_id is required"
  ELSE IF d.raw_text = "" THEN "raw_text is required"
  ELSE IF d.target_platforms = <<>> THEN "target_platforms is required"
  ELSE IF d.schedule_time = "" THEN "schedule_time is required"
  ELSE IF platform_list(d.target_platforms) = <<>> THEN "No valid target platforms specified"
  ELSE IF ~fromisoformat_ok(d.schedule_time) THEN "Invalid schedule time format"
  ELSE NoError

\* The ValueError text _handle_post_status_update raises; NoError when valid.
status_update_validation_error(d) ==
  IF ~d.json THEN "No content data found in task"
  ELSE IF d.socialspark_post_id = 0 THEN "socialspark_post_id is required"
  ELSE IF d.platform = "" THEN "platform is required"
  ELSE IF d.status = "" THEN "status is required"
  ELSE NoError

\* ------------------------------------------------ adapters.py (strings)
\* A str is the sequence of its characters.  Characters that \w matches, and
\* the others the texts below are made of: the space and the tag prefix "#".
WordChars == {"a", "b", "H", "e", "l", "o", "w", "r", "d", "t", "s"}
Chars == {"a", "b", " ", "#"}

\* The str values of at most n characters over Chars.
Strs(n) == UNION {[1..k -> Chars] : k \in 0..n}

\* s[n:]
Drop(s, n) == SubSeq(s, n + 1, Len(s))

\* The longest run of \w characters at the start of s.
RECURSIVE word_prefix(_)
word_prefix(s) ==
  IF s # <<>> /\ Head(s) \in WordChars
  THEN <<Head(s)>> \o word_prefix(Tail(s)) ELSE <<>>

\* extract_hashtags(text): re.findall(r'#(\w+)', text), the groups of the
\* non-overlapping matches from left to right.
RECURSIVE extract_hashtags(_)
extract_hashtags(text) ==
  IF text = <<>> THEN <<>>
  ELSE LET word == word_prefix(Tail(text))
       IN IF Head(text) = "#" /\ word # <<>>
          THEN <<word>> \o extract_hashtags(Drop(text, 1 + Len(word)))
          ELSE extract_hashtags(Tail(text))

\* re.sub(r'#\w+', '', raw_text): the text without those matches.
RECURSIVE sub_hashtags(_)
sub_hashtags(text) ==
  IF text = <<>> THEN <<>>
  ELSE LET word == word_prefix(Tail(text))
       IN IF Head(text) = "#" /\ word # <<>>
          THEN sub_hashtags(Drop(text, 1 + Len(word)))
          ELSE <<Head(text)>> \o sub_hashtags(Tail(text))

\* str.strip() on texts whose only whitespace is the space.
RECURSIVE lstrip(_)
lstrip(s) == IF s # <<>> /\ Head(s) = " " THEN lstrip(Tail(s)) ELSE s

RECURSIVE rstrip(_)
rstrip(s) == IF s # <<>> /\ s[Len(s)] = " " THEN rstrip(SubSeq(s, 1, Len(s) - 1)) ELSE s

strip(s) == rstrip(lstrip(s))

\* hashtag_format.format(tag): the template with its "{}" replaced by tag.
RECURSIVE str_format(_, _)
str_format(template, tag) ==
  IF template = <<>> THEN <<>>
  ELSE (IF Head(template) = "{}" THEN tag ELSE <<Head(template)>>)
         \o str_format(Tail(template), tag)

\* The hashtag_format of every AdaptationRules the agent builds: "#{}".
HashtagFormat == <<"#", "{}">>

\* format_hashtags(hashtags, hashtag_format)
RECURSIVE format_hashtags(_, _)
format_hashtags(hashtags, hashtag_format) ==
  IF hashtags = <<>> THEN <<>>
  ELSE <<str_format(hashtag_format, Head(hashtags))>>
         \o format_hashtags(Tail(hashtags), hashtag_format)

\* " ".join(strs)
RECURSIVE join(_)
join(strs) ==
  IF strs = <<>> THEN <<>>
  ELSE IF Len(strs) = 1 THEN Head(strs)
  ELSE Head(strs) \o <<" ">> \o join(Tail(strs))

\* s.rfind(' '): the 0-based index of the last space, -1 when there is none.
RECURSIVE rfind_space(_)
rfind_space(s) ==
  IF s = <<>> THEN -1
  ELSE IF s[Len(s)] = " " THEN Len(s) - 1
  ELSE rfind_space(SubSeq(s, 1, Len(s) - 1))

\* Variant of truncate_text that also cuts a text of exactly max_length
\* characters.
truncate_text_Strict(text, max_length) ==
  IF Len(text) < max_length THEN text
  ELSE LET truncated == SubSeq(text, 1, max_length)
           last_space == rfind_space(truncated)
           cut == IF last_space > 0 THEN SubSeq(truncated, 1, last_space) ELSE truncated
       IN cut \o <<".", ".", ".">>

\* truncate_text(text, max_length), for max_length >= 0.
truncate_text(text, max_length) ==
  IF Len(text) <= max_length THEN text
  ELSE LET truncated == SubSeq(text, 1, max_length)
           last_space == rfind_space(truncated)
           cut == IF last_space > 0 THEN SubSeq(truncated, 1, last_space) ELSE truncated
       IN IF Len(cut) < Len(text) THEN cut \o <<".", ".", ".">> ELSE cut

\* clean_text of adapt_content_for_platform.
clean_text(text) == strip(sub_hashtags(text))

\* adapt_content_for_platform(raw_text, image_reference, platform, rules):
\* the text and the hashtags of the PlatformSpecificContent it returns.
adapt_content_for_platform(text, max_length, hashtag_format) ==
  LET hashtags == extract_hashtags(text)
      formatted_hashtags == format_hashtags(hashtags, hashtag_format)
      clean == clean_text(text)
      hashtag_text == join(formatted_hashtags)
      budget == max_length - Len(hashtag_text) - 1
      max_content_length == IF budget < 0 THEN max_length \div 2 ELSE budget
      truncated_text == truncate_text(clean, max_content_length)
  IN [text |-> IF hashtags # <<>>
               THEN IF truncated_text # <<>> /\ hashtag_text # <<>>
                    THEN truncated_text \o <<" ">> \o hashtag_text
                    ELSE IF truncated_text # <<>> THEN truncated_text ELSE hashtag_text
               ELSE truncate_text(clean, max_length),
      hashtags |-> hashtags]

\* The raw texts and limits adaptation is applied to: every text of at most
\* MaxLen characters with every limit up to MaxLen, and the text
\* "Hello #world #test" with the limit of the twitter rules.
HelloText == <<"H", "e", "l", "l", "o", " ", "#", "w", "o", "r", "l", "d", " ",
               "#", "t", "e", "s", "t">>
TwitterLimit == 280
RawTexts == Strs(MaxLen) \cup {HelloText}
Limits == 1..MaxLen \cup {TwitterLimit}

\* datetime.fromisoformat(s.replace('Z', '+00:00')) for the strings it parses;
\* a datetime is written as its isoformat(), which is what PostStorage stores
\* (_post_to_dict) and reads back (_dict_to_post).
parse_schedule_time(s) ==
  CASE s = "2030-01-01T00:00:00Z" -> "2030-01-01T00:00:00+00:00"
    [] OTHER -> s

\* The datetimes a schedule_time may be.
ScheduleTimes == {"2030-01-01T00:00:00+00:00", "2030-01-02T00:00:00+00:00"}

\* Variant of the add_job call without id= and replace_existing=: every call
\* adds a job of its own.
add_job_NoReplace(js, job) == js \cup {job}

\* self.scheduler.add_job(publish_post_wrapper, 'date', run_date=..., args=[...],
\* id=job_id, replace_existing=True): a pending job with the same id is
\* replaced.  The job id publish_post_<post id> is named by the post id.
add_job(js, job) == {j \in js : j.id # job.id} \cup {job}

\* _schedule_post_publication(post): the job store after it.
schedule_post_publication(js, post_id, schedule_time) ==
  add_job(js, [id |-> post_id, run_date |-> schedule_time, arg |-> post_id])

JobsOf(post_id) == {j \in jobs : j.id = post_id}

\* list.remove(x): drops the first occurrence (the caller checks membership).
RECURSIVE list_remove(_, _)
list_remove(q, x) ==
  IF q = <<>> THEN <<>>
  ELSE IF Head(q) = x THEN Tail(q)
  ELSE <<Head(q)>> \o list_remove(Tail(q), x)

InList(q, x) == \E i \in 1..Len(q) : q[i] = x

\* generate_id(): a post id no stored post has (0 when the bound is used up).
FreshPostId ==
  IF \E p \in PostIds : posts[p] = NoPost
  THEN CHOOSE p \in PostIds : posts[p] = NoPost /\ \A q \in PostIds : posts[q] = NoPost => p <= q
  ELSE 0

\* f"{platform.lower()}-posting-agent" for the values of SocialPlatform.
target_agent_id(platform) ==
  CASE platform = "facebook" -> "facebook-posting-agent"
    [] platform = "twitter" -> "twitter-posting-agent"
    [] platform = "instagram" -> "instagram-posting-agent"
    [] platform = "linkedin" -> "linkedin-posting-agent"
    [] OTHER -> "-posting-agent"

\* The agent ids _publish_post addresses.
PostingAgents == {target_agent_id(platform) : platform \in SocialPlatform}

\* The event loop is between coroutine steps: no coroutine sits between the
\* return of its handler and the status write that follows without an await.
LoopIdle == \A o \in Objs : pc[o] \notin {"returned", "raised"}

\* GET /tasks/{task_id}: the answer (agent.py lines 89-93).  A read: it
\* changes no state, so it is an operator on the state and not an action.
get_task(task_id) ==
  IF tasks[task_id] = 0 THEN [code |-> 404, status |-> "<none>"]
  ELSE [code |-> 200, status |-> heap[tasks[task_id]].status]

\* ------------------------------------------------------------------- Init
H_SCHED == "_handle_process_schedule_post"
H_UPD == "_handle_post_status_update"
H_CUSTOM == "custom_handler"

NoResponse == [id |-> "<none>", code |-> 0, status |-> "<none>"]

\* The state after ContentSchedulerAgent.__init__: the two handlers of
\* _register_task_handlers are registered, self.tasks is empty, the scheduler
\* is not started and there is no _publish_queue attribute.  The stores are
\* durable: they may hold posts and pending jobs of an earlier run.
\* agents: the agent ids a dispatch of this deployment reaches.
InitReaching(agents) ==
  /\ task_handlers = [t \in TaskTypes |->
                        CASE t = "process_and_schedule_post" -> H_SCHED
                          [] t = "post_status_update" -> H_UPD
                          [] OTHER -> NoHandler]
  /\ tasks = [i \in TaskIds |-> 0]
  /\ heap = [o \in Objs |-> NoObj]
  /\ nobj = 0
  /\ pc = [o \in Objs |-> "none"]
  /\ exc = [o \in Objs |-> NoError]
  /\ response = NoResponse
  /\ \E k \in 0..MaxPersisted :
       /\ posts = [p \in PostIds |->
                     IF p <= k
                     THEN [status |-> SCHEDULED, target_platforms |-> <<"facebook", "twitter">>,
                           platform_post_ids |-> {},
                           schedule_time |-> parse_schedule_time(BaseData.schedule_time),
                           platform_specific_content |-> {"facebook", "twitter"},
                           updated_at |-> 0]
                     ELSE NoPost]
       /\ jobs = {[id |-> p, run_date |-> parse_schedule_time(BaseData.schedule_time),
                    arg |-> p] :
                    p \in {q \in PostIds : q <= k}}
  /\ task_store = [i \in TaskIds |-> NoRecord]
  /\ sched_running = FALSE
  /\ has_queue = FALSE
  /\ publish_queue = <<>>
  /\ start_pc = "begin"
  /\ fire_pc = [p \in PostIds |-> "idle"]
  /\ serving = FALSE
  /\ drain_pc = [d \in Drainers |-> "off"]
  /\ drain_snap = [d \in Drainers |-> <<>>]
  /\ drain_cur = [d \in Drainers |-> 0]
  /\ drain_todo = [d \in Drainers |-> <<>>]
  /\ publish_calls = [p \in PostIds |-> 0]
  /\ appended = [p \in PostIds |-> FALSE]
  /\ passes = [p \in PostIds |-> 0]
  /\ pass_left = [d \in Drainers |-> {}]
  /\ pass_failed = [d \in Drainers |-> {}]
  /\ failed_publish = {}
  /\ reachable = agents
  /\ fb_inbox = <<>>
  /\ fb_done = {}
  /\ dispatched = {}
  /\ updates_sent = [p \in PostIds |-> [f \in SocialPlatform |-> 0]]
  /\ now = 0
  /\ registered = task_handlers
  /\ handled_by = [o \in Objs |-> NoHandler]
  /\ fb_tasks = [i \in FbTaskIds |-> NoFbTask]
  /\ fb_sent = <<>>
  /\ recorded = {}
  /\ publish_sent = [p \in PostIds |-> [a \in PostingAgents |-> 0]]
  /\ not_found = {}

\* adapt_content_for_platform has not been called.
AdapterIdle ==
  /\ raw_text = <<>>
  /\ max_text_length = 0
  /\ adapted = NoContent

\* The agents as main.py launches them: every agent keeps the default
\* base_url "http://localhost" and its client posts to
\* {base_url}/agents/<id>/tasks, while the agents serve POST /tasks on their
\* own ports (8001, 8002): no dispatch reaches an agent.
Init == InitReaching({}) /\ AdapterIdle

\* adapt_content_for_platform is about to be called with any of the raw
\* texts and limits.
AdaptInit ==
  /\ InitReaching({})
  /\ raw_text \in RawTexts
  /\ max_text_length \in Limits
  /\ adapted = NoContent

\* A deployment with a router at base_url that forwards /agents/<id>/tasks to
\* some of the agents main.py can launch.
DispatchInit == (\E agents \in SUBSET Agents : InitReaching(agents)) /\ AdapterIdle

\* ------------------------------------------------- Agent Runtime (agent.py)
\* Variant of register_task_handler that keeps the handler a task type
\* already has.
RegisterTaskHandler_KeepsFirst(task_type, handler) ==
  /\ UNCHANGED <<dispatchVars, now, adaptVars, handled_by, postingVars, auditVars>>
  /\ task_handlers[task_type] # handler
  /\ task_handlers' = IF task_handlers[task_type] # NoHandler THEN task_handlers
                      ELSE [task_handlers EXCEPT ![task_type] = handler]
  /\ registered' = [registered EXCEPT ![task_type] = handler]
  /\ UNCHANGED <<tasks, heap, nobj, pc, exc, response>>
  /\ UNCHANGED <<storeVars, queueVars, startVars, fire_pc, drainVars, histVars>>

\* register_task_handler(task_type, handler): self.task_handlers[task_type] =
\* handler, whatever the type had before.
RegisterTaskHandler(task_type, handler) ==
  /\ UNCHANGED <<dispatchVars, now, adaptVars, handled_by, postingVars, auditVars>>
  /\ task_handlers[task_type] # handler
  /\ task_handlers' = [task_handlers EXCEPT ![task_type] = handler]
  /\ registered' = [registered EXCEPT ![task_type] = handler]
  /\ UNCHANGED <<tasks, heap, nobj, pc, exc, response>>
  /\ UNCHANGED <<storeVars, queueVars, startVars, fire_pc, drainVars, histVars>>

\* Posts still to be created by accepted, not yet processed schedule tasks.
PendingPostCreations ==
  Cardinality({o \in Objs : /\ pc[o] = "scheduled"
                            /\ heap[o].type = "process_and_schedule_post"
                            /\ schedule_validation_error(Data(heap[o].data)) = NoError})

StoredPosts == {p \in PostIds : posts[p] # NoPost}

\* Variant of _handle_incoming_task that awaits _process_task(task) before it
\* returns instead of handing it to background_tasks: the answer is sent when
\* the handler is over.
HandleIncomingTask_Awaited(id, type, target, data) ==
  /\ UNCHANGED <<dispatchVars, now, adaptVars, handlerVars, postingVars, auditVars>>
  /\ serving /\ LoopIdle
  /\ IF target # AgentId \/ task_handlers[type] = NoHandler
     THEN /\ response' = [id |-> id, code |-> 400, status |-> "<none>"]
          /\ UNCHANGED <<task_handlers, tasks, heap, nobj, pc, exc>>
     ELSE /\ nobj < MaxReceived
          /\ \E sent_at \in 0..now :
             LET o == nobj + 1
                 task == request_task(id, type, data, sent_at)
             IN /\ nobj' = o
                /\ tasks' = [tasks EXCEPT ![id] = o]
                /\ heap' = [heap EXCEPT ![o] =
                             [task EXCEPT !.status = COMPLETED]]
                /\ pc' = [pc EXCEPT ![o] = "done"]
                /\ response' = [id |-> id, code |-> 201, status |-> heap'[o].status]
          /\ UNCHANGED <<task_handlers, exc>>
  /\ UNCHANGED <<storeVars, queueVars, startVars, fire_pc, drainVars, histVars>>

\* Variant of _handle_incoming_task that stores the task before it checks the
\* target and the handler: a rejected task is left in self.tasks.
HandleIncomingTask_StoreFirst(id, type, target, data) ==
  /\ UNCHANGED <<dispatchVars, now, adaptVars, handlerVars, postingVars, auditVars>>
  /\ serving /\ LoopIdle
  /\ nobj < MaxReceived
  /\ \E sent_at \in 0..now :
     LET o == nobj + 1
         task == request_task(id, type, data, sent_at)
     IN /\ nobj' = o
        /\ tasks' = [tasks EXCEPT ![id] = o]
        /\ IF target # AgentId \/ task_handlers[type] = NoHandler
           THEN /\ heap' = [heap EXCEPT ![o] = task]
                /\ response' = [id |-> id, code |-> 400, status |-> "<none>"]
                /\ UNCHANGED pc
           ELSE /\ heap' = [heap EXCEPT ![o] = update_status(task, IN_PROGRESS)]
                /\ pc' = [pc EXCEPT ![o] = "scheduled"]
                /\ response' = [id |-> id, code |-> 201, status |-> heap'[o].status]
  /\ UNCHANGED <<task_handlers, exc>>
  /\ UNCHANGED <<storeVars, queueVars, startVars, fire_pc, drainVars, histVars>>

\* POST /tasks -> _handle_incoming_task(background_tasks, task).  The task is
\* the object deserialised from the body, created by A2AClient.create_task
\* with status pending.
HandleIncomingTask_KeepsFirst(id, type, target, data) ==
  /\ UNCHANGED <<dispatchVars, now, adaptVars, handlerVars, postingVars, auditVars>>
  /\ serving /\ LoopIdle
  /\ IF target # AgentId \/ task_handlers[type] = NoHandler
     THEN /\ response' = [id |-> id, code |-> 400, status |-> "<none>"]
          /\ UNCHANGED <<task_handlers, tasks, heap, nobj, pc, exc>>
     ELSE /\ nobj < MaxReceived
          /\ \E sent_at \in 0..now :
             LET o == nobj + 1
                 task == request_task(id, type, data, sent_at)
             IN /\ nobj' = o
                /\ tasks' = IF tasks[id] # 0 THEN tasks ELSE [tasks EXCEPT ![id] = o]
                /\ heap' = [heap EXCEPT ![o] = update_status(task, IN_PROGRESS)]
                /\ pc' = [pc EXCEPT ![o] = "scheduled"]
                /\ response' = [id |-> id, code |-> 201, status |-> heap'[o].status]
          /\ UNCHANGED <<task_handlers, exc>>
  /\ UNCHANGED <<storeVars, queueVars, startVars, fire_pc, drainVars, histVars>>

HandleIncomingTask(id, type, target, data) ==
  /\ UNCHANGED <<dispatchVars, now, adaptVars, handlerVars, postingVars, auditVars>>
  /\ serving /\ LoopIdle
  /\ IF target # AgentId \/ task_handlers[type] = NoHandler
     THEN /\ response' = [id |-> id, code |-> 400, status |-> "<none>"]
          /\ UNCHANGED <<task_handlers, tasks, heap, nobj, pc, exc>>
     ELSE /\ nobj < MaxReceived
          /\ (type = "process_and_schedule_post"
                /\ schedule_validation_error(Data(data)) = NoError)
               => Cardinality(StoredPosts) + PendingPostCreations < MaxPosts
          /\ \E sent_at \in 0..now :
             LET o == nobj + 1
                 task == request_task(id, type, data, sent_at)
             IN /\ nobj' = o
                /\ tasks' = [tasks EXCEPT ![id] = o]
                /\ heap' = [heap EXCEPT ![o] = update_status(task, IN_PROGRESS)]
                /\ pc' = [pc EXCEPT ![o] = "scheduled"]
                /\ response' = [id |-> id, code |-> 201, status |-> heap'[o].status]
          /\ UNCHANGED <<task_handlers, exc>>
  /\ UNCHANGED <<storeVars, queueVars, startVars, fire_pc, drainVars, histVars>>

\* PATCH /tasks/{task_id} with update_data = {"status": value}: the status is
\* set through Task.update_status.
UpdateTask(task_id, value) ==
  /\ UNCHANGED <<dispatchVars, now, adaptVars, handlerVars, postingVars, auditVars>>
  /\ serving /\ LoopIdle
  /\ tasks[task_id] # 0      \* otherwise 404 and nothing changes
  /\ heap[tasks[task_id]].status # value
  /\ heap' = [heap EXCEPT ![tasks[task_id]] = update_status(@, value)]
  /\ UNCHANGED <<task_handlers, tasks, nobj, pc, exc, response>>
  /\ UNCHANGED <<storeVars, queueVars, startVars, fire_pc, drainVars, histVars>>

\* TaskStorage.save_task(task): the document written for task.id (status and
\* metadata of the task at the time of the call).
save_task(store, task) ==
  [store EXCEPT ![task.id] = [status |-> task.status, error |-> task.error,
                              post_id |-> task.post_id]]

\* Variant of _handle_process_schedule_post that registers the deferred job
\* before it looks at the result of save_post.
HandleProcessSchedulePost_SchedulesUnsaved(o, saved, task_saved) ==
  LET task == heap[o]
      d == Data(task.data)
      err == schedule_validation_error(d)
      post_id == FreshPostId
  IN IF err # NoError
     THEN /\ heap' = [heap EXCEPT ![o] = update_status([task EXCEPT !.error = err], FAILED)]
          /\ UNCHANGED <<posts, jobs, task_store>>
     ELSE /\ post_id # 0
          /\ jobs' = schedule_post_publication(jobs, post_id,
                                               parse_schedule_time(d.schedule_time))
          /\ IF ~saved
             THEN /\ heap' = [heap EXCEPT ![o] =
                                update_status([task EXCEPT !.error = "Failed to save post"], FAILED)]
                  /\ UNCHANGED <<posts, task_store>>
             ELSE /\ posts' = [posts EXCEPT ![post_id] =
                                 [status |-> SCHEDULED,
                                  target_platforms |-> platform_list(d.target_platforms),
                                  platform_post_ids |-> {},
                                  schedule_time |-> parse_schedule_time(d.schedule_time),
                                  platform_specific_content |->
                                    adapted_platforms(platform_list(d.target_platforms)),
                                  updated_at |-> now]]
                  /\ task_store' = IF task_saved THEN save_task(task_store, task) ELSE task_store
                  /\ heap' = [heap EXCEPT ![o].post_id = post_id]

\* _handle_process_schedule_post(task), run by _process_task up to the
\* handler's return.  The handler has no await: it runs in one loop step.
\* saved: the result of post_storage.save_post; task_saved: whether the write
\* of task_storage.save_task succeeds (its result is not read).
HandleProcessSchedulePost(o, saved, task_saved) ==
  LET task == heap[o]
      d == Data(task.data)
      err == schedule_validation_error(d)
      post_id == FreshPostId
  IN IF err # NoError
     THEN \* except Exception: metadata["error"] = str(e); update_status(FAILED)
          /\ heap' = [heap EXCEPT ![o] = update_status([task EXCEPT !.error = err], FAILED)]
          /\ UNCHANGED <<posts, jobs, task_store>>
     ELSE /\ post_id # 0
          /\ IF ~saved
             THEN /\ heap' = [heap EXCEPT ![o] =
                                update_status([task EXCEPT !.error = "Failed to save post"], FAILED)]
                  /\ UNCHANGED <<posts, jobs, task_store>>
             ELSE /\ posts' = [posts EXCEPT ![post_id] =
                                 [status |-> SCHEDULED,
                                  target_platforms |-> platform_list(d.target_platforms),
                                  platform_post_ids |-> {},
                                  schedule_time |-> parse_schedule_time(d.schedule_time),
                                  platform_specific_content |->
                                    adapted_platforms(platform_list(d.target_platforms)),
                                  updated_at |-> now]]
                  /\ jobs' = schedule_post_publication(jobs, post_id,
                                                       parse_schedule_time(d.schedule_time))
                  \* save_task comes before metadata["post_id"] is set
                  /\ task_store' = IF task_saved THEN save_task(task_store, task) ELSE task_store
                  /\ heap' = [heap EXCEPT ![o].post_id = post_id]

\* Variant of the assignment to post.platform_post_ids that replaces the
\* whole dict by the one entry.
record_platform_post_id_Overwrites(post, platform, platform_post_id) ==
  [post EXCEPT !.platform_post_ids = {[platform |-> platform, id |-> platform_post_id]}]

\* post.platform_post_ids[platform] = platform_post_id; the dict is the set
\* of its items.
record_platform_post_id(post, platform, platform_post_id) ==
  [post EXCEPT !.platform_post_ids =
     {r \in @ : r.platform # platform} \cup {[platform |-> platform, id |-> platform_post_id]}]

\* _handle_post_status_update(task); no await either: get_post, the change
\* of the loaded post and save_post are one loop step.  The result of
\* save_post is not read.
HandlePostStatusUpdate(o, saved, task_saved) ==
  LET task == heap[o]
      d == Data(task.data)
      err == status_update_validation_error(d)
      post_id == d.socialspark_post_id
      reports_id == d.status = "success" /\ d.platform_post_id # ""
  IN /\ UNCHANGED jobs
     /\ IF err # NoError
        THEN /\ heap' = [heap EXCEPT ![o] = update_status([task EXCEPT !.error = err], FAILED)]
             /\ UNCHANGED <<posts, task_store, recorded>>
        ELSE /\ UNCHANGED heap
             /\ IF posts[post_id] = NoPost
                THEN UNCHANGED <<posts, task_store, recorded>>
                ELSE /\ posts' = IF saved
                                 THEN [posts EXCEPT ![post_id] =
                                         [(IF reports_id
                                           THEN record_platform_post_id(@, d.platform,
                                                                        d.platform_post_id)
                                           ELSE @) EXCEPT !.updated_at = now]]
                                 ELSE posts
                     /\ recorded' = IF saved /\ reports_id
                                    THEN {r \in recorded :
                                            r.post_id # post_id \/ r.platform # d.platform}
                                         \cup {[post_id |-> post_id, platform |-> d.platform,
                                                id |-> d.platform_post_id]}
                                    ELSE recorded
                     /\ task_store' = IF task_saved THEN save_task(task_store, task)
                                      ELSE task_store

\* _process_task(task), from its start to the return of a handler that does
\* not await, or to the first await of a handler that does.
ProcessStart(o) ==
  /\ UNCHANGED <<dispatchVars, now, adaptVars, registered, postingVars, publish_sent,
                 not_found>>
  /\ serving /\ LoopIdle
  /\ pc[o] = "scheduled"
  /\ LET handler == task_handlers[heap[o].type]
     IN /\ handled_by' = [handled_by EXCEPT ![o] = handler]
        /\ \/ /\ handler = H_SCHED
              /\ \E saved, task_saved \in BOOLEAN : HandleProcessSchedulePost(o, saved, task_saved)
              /\ pc' = [pc EXCEPT ![o] = "returned"]
              /\ UNCHANGED recorded
           \/ /\ handler = H_UPD
              /\ \E saved, task_saved \in BOOLEAN : HandlePostStatusUpdate(o, saved, task_saved)
              /\ pc' = [pc EXCEPT ![o] = "returned"]
           \/ /\ handler = H_CUSTOM
              /\ pc' = [pc EXCEPT ![o] = "running"]
              /\ UNCHANGED <<heap, posts, jobs, task_store, recorded>>
  /\ UNCHANGED <<task_handlers, tasks, nobj, exc, response>>
  /\ UNCHANGED <<queueVars, startVars, fire_pc, drainVars, histVars>>

\* A handler registered through register_task_handler resumes from its await
\* and returns, or raises an exception e with str(e) = msg.
CustomHandlerReturn(o) ==
  /\ UNCHANGED <<dispatchVars, now, adaptVars, handlerVars, postingVars, auditVars>>
  /\ serving /\ LoopIdle
  /\ pc[o] = "running"
  /\ pc' = [pc EXCEPT ![o] = "returned"]
  /\ UNCHANGED <<task_handlers, tasks, heap, nobj, exc, response>>
  /\ UNCHANGED <<storeVars, queueVars, startVars, fire_pc, drainVars, histVars>>

CustomHandlerRaise(o, msg) ==
  /\ UNCHANGED <<dispatchVars, now, adaptVars, handlerVars, postingVars, auditVars>>
  /\ serving /\ LoopIdle
  /\ pc[o] = "running"
  /\ pc' = [pc EXCEPT ![o] = "raised"]
  /\ exc' = [exc EXCEPT ![o] = msg]
  /\ UNCHANGED <<task_handlers, tasks, heap, nobj, response>>
  /\ UNCHANGED <<storeVars, queueVars, startVars, fire_pc, drainVars, histVars>>

\* The status write of _process_task after `await handler(task)`:
\* COMPLETED when the handler returned, FAILED and metadata["error"] = str(e)
\* when it raised.
complete(task, raised, msg) ==
  IF raised THEN [update_status(task, FAILED) EXCEPT !.error = msg]
  ELSE update_status(task, COMPLETED)

ProcessFinish(o) ==
  /\ UNCHANGED <<dispatchVars, now, adaptVars, handlerVars, postingVars, auditVars>>
  /\ pc[o] \in {"returned", "raised"}
  /\ heap' = [heap EXCEPT ![o] = complete(@, pc[o] = "raised", exc[o])]
  /\ pc' = [pc EXCEPT ![o] = "done"]
  /\ exc' = [exc EXCEPT ![o] = NoError]
  /\ UNCHANGED <<task_handlers, tasks, nobj, response>>
  /\ UNCHANGED <<storeVars, queueVars, startVars, fire_pc, drainVars, histVars>>

\* Variant of the status update of _publish_post that also stamps the time
\* of publication over schedule_time.
published_Restamped(post) ==
  [post EXCEPT !.status = PUBLISHED, !.schedule_time = "<now>", !.updated_at = now]

\* Variant of the status update of _publish_post that saves the post with an
\* empty platform_post_ids.
published_ForgetsIds(post) ==
  [post EXCEPT !.status = PUBLISHED, !.updated_at = now, !.platform_post_ids = {}]

\* post.status = PostStatus.PUBLISHED and post.updated_at = datetime.now() of
\* _publish_post, as save_post then stores them.
published(post) == [post EXCEPT !.status = PUBLISHED, !.updated_at = now]

\* The call adapted_content = adapt_content_for_platform(raw_text, ...,
\* rules) of _handle_process_schedule_post.
Adapt ==
  /\ adapted = NoContent
  /\ adapted' = adapt_content_for_platform(raw_text, max_text_length, HashtagFormat)
  /\ UNCHANGED <<raw_text, max_text_length, now>>
  /\ UNCHANGED <<runtimeVars, storeVars, queueVars, startVars, drainVars, histVars,
                 dispatchVars, fire_pc, handlerVars, postingVars, auditVars>>

\* Time passes: the next reading of datetime.now() is later.
Tick ==
  /\ now < MaxTime
  /\ now' = now + 1
  /\ UNCHANGED <<runtimeVars, storeVars, queueVars, startVars, drainVars, histVars,
                 dispatchVars, adaptVars, fire_pc, handlerVars, postingVars, auditVars>>

\* _schedule_post_publication(post) called again for a stored post whose
\* job is pending, with another schedule_time.
SchedulePostPublicationAgain(post_id, schedule_time) ==
  /\ UNCHANGED <<dispatchVars, now, adaptVars, handlerVars, postingVars, auditVars>>
  /\ serving /\ LoopIdle
  /\ posts[post_id] # NoPost
  /\ JobsOf(post_id) # {}
  /\ \A j \in JobsOf(post_id) : j.run_date # schedule_time
  /\ jobs' = schedule_post_publication(jobs, post_id, schedule_time)
  /\ UNCHANGED <<runtimeVars, posts, task_store, queueVars, startVars, fire_pc, drainVars, histVars>>

\* --------------------------------------- start() on the main thread
\* if not self.scheduler.running: self.scheduler.start()
StartScheduler ==
  /\ UNCHANGED <<dispatchVars, now, adaptVars, handlerVars, postingVars, auditVars>>
  /\ start_pc = "begin"
  /\ sched_running' = TRUE
  /\ start_pc' = "check_queue"
  /\ UNCHANGED <<runtimeVars, storeVars, queueVars, fire_pc, drainVars, histVars>>

\* if not hasattr(self, '_publish_queue'):
StartCheckQueue ==
  /\ UNCHANGED <<dispatchVars, now, adaptVars, handlerVars, postingVars, auditVars>>
  /\ start_pc = "check_queue"
  /\ start_pc' = IF has_queue THEN "done" ELSE "init_queue"
  /\ UNCHANGED <<sched_running, runtimeVars, storeVars, queueVars, fire_pc, drainVars, histVars>>

\*     self._publish_queue = []
StartInitQueue ==
  /\ UNCHANGED <<dispatchVars, now, adaptVars, handlerVars, postingVars, auditVars>>
  /\ start_pc = "init_queue"
  /\ has_queue' = TRUE
  /\ publish_queue' = <<>>
  /\ start_pc' = "done"
  /\ UNCHANGED <<sched_running, runtimeVars, storeVars, fire_pc, drainVars, histVars>>

\* ------------------------- the scheduler's timer context (publish_post_wrapper)
\* The date job of post_id comes due: the scheduler takes it out of the job
\* store and runs publish_post_wrapper(post_id) on a pool thread, which
\* evaluates `not hasattr(self, '_publish_queue')`.
FireJob(post_id) ==
  /\ UNCHANGED <<dispatchVars, now, adaptVars, handlerVars, postingVars, auditVars>>
  /\ sched_running
  /\ fire_pc[post_id] = "idle"
  /\ \E j \in JobsOf(post_id) : jobs' = jobs \ {j}
  /\ fire_pc' = [fire_pc EXCEPT ![post_id] = IF has_queue THEN "append" ELSE "init_queue"]
  /\ UNCHANGED <<runtimeVars, posts, task_store, queueVars, startVars, drainVars, histVars>>

\*     self._publish_queue = []
WrapperInitQueue(post_id) ==
  /\ UNCHANGED <<dispatchVars, now, adaptVars, handlerVars, postingVars, auditVars>>
  /\ fire_pc[post_id] = "init_queue"
  /\ has_queue' = TRUE
  /\ publish_queue' = <<>>
  /\ fire_pc' = [fire_pc EXCEPT ![post_id] = "append"]
  /\ UNCHANGED <<runtimeVars, storeVars, startVars, drainVars, histVars>>

\* Variant of publish_post_wrapper that performs the publication itself
\* instead of queueing the post id.
WrapperAppend_Publishes(post_id) ==
  /\ UNCHANGED <<dispatchVars, now, adaptVars, handlerVars, postingVars, auditVars>>
  /\ fire_pc[post_id] = "append"
  /\ publish_calls' = [publish_calls EXCEPT ![post_id] = IF @ < MaxCalls THEN @ + 1 ELSE @]
  /\ posts' = IF posts[post_id] # NoPost
              THEN [posts EXCEPT ![post_id] = published(@)] ELSE posts
  /\ fire_pc' = [fire_pc EXCEPT ![post_id] = "done"]
  /\ appended' = [appended EXCEPT ![post_id] = TRUE]
  /\ UNCHANGED <<queueVars, runtimeVars, jobs, task_store, startVars, drainVars,
                 passes, pass_left, pass_failed, failed_publish>>

\* self._publish_queue.append(post_id)
WrapperAppend(post_id) ==
  /\ UNCHANGED <<dispatchVars, now, adaptVars, handlerVars, postingVars, auditVars>>
  /\ fire_pc[post_id] = "append"
  /\ publish_queue' = Append(publish_queue, post_id)
  /\ fire_pc' = [fire_pc EXCEPT ![post_id] = "done"]
  /\ appended' = [appended EXCEPT ![post_id] = TRUE]
  /\ UNCHANGED <<has_queue, runtimeVars, storeVars, startVars, drainVars,
                 publish_calls, passes, pass_left, pass_failed, failed_publish>>

\* ----------------------------- the drain loop on the event loop (run())
\* A pass takes list(self._publish_queue); appends made before it are in it.
BeginPass ==
  [p \in PostIds |-> IF appended[p] /\ passes[p] = 0 THEN 1 ELSE passes[p]]

EndPass ==
  [p \in PostIds |-> IF passes[p] = 1 THEN 2 ELSE passes[p]]

ListIds(q) == {q[i] : i \in 1..Len(q)}

\* Variant of process_publish_queue that creates the task
\* check_queue_periodically before it drains the queue instead of after.
ProcessPublishQueue_TaskFirst ==
  /\ UNCHANGED <<dispatchVars, now, adaptVars, handlerVars, postingVars, auditVars>>
  /\ start_pc = "done"
  /\ drain_pc[STARTUP] = "off"
  /\ LET snap == IF has_queue THEN publish_queue ELSE <<>>
     IN /\ drain_snap' = [drain_snap EXCEPT ![STARTUP] = snap]
        /\ pass_left' = [pass_left EXCEPT ![STARTUP] = ListIds(snap)]
        /\ pass_failed' = [pass_failed EXCEPT ![STARTUP] = {}]
  /\ drain_pc' = [drain_pc EXCEPT ![STARTUP] = "iter", ![PERIODIC] = "sleep"]
  /\ passes' = BeginPass
  /\ UNCHANGED <<serving, drain_cur, drain_todo, publish_calls, appended, failed_publish>>
  /\ UNCHANGED <<runtimeVars, storeVars, queueVars, startVars, fire_pc>>

\* The startup event process_publish_queue begins once start() has returned
\* and the server runs its startup handlers:
\*   if hasattr(self, '_publish_queue') and self._publish_queue:
\*       for post_id in list(self._publish_queue):
ProcessPublishQueue ==
  /\ UNCHANGED <<dispatchVars, now, adaptVars, handlerVars, postingVars, auditVars>>
  /\ start_pc = "done"
  /\ drain_pc[STARTUP] = "off"
  /\ LET snap == IF has_queue THEN publish_queue ELSE <<>>
     IN /\ drain_snap' = [drain_snap EXCEPT ![STARTUP] = snap]
        /\ pass_left' = [pass_left EXCEPT ![STARTUP] = ListIds(snap)]
        /\ pass_failed' = [pass_failed EXCEPT ![STARTUP] = {}]
  /\ drain_pc' = [drain_pc EXCEPT ![STARTUP] = "iter"]
  /\ passes' = BeginPass
  /\ UNCHANGED <<serving, drain_cur, drain_todo, publish_calls, appended, failed_publish>>
  /\ UNCHANGED <<runtimeVars, storeVars, queueVars, startVars, fire_pc>>

\* self._publish_queue.remove(post_id) inside the try of the pass: a
\* ValueError (post_id not in the list) is caught and logged.
queue_remove(q, post_id) == IF InList(q, post_id) THEN list_remove(q, post_id) ELSE q

\* The platforms of post.target_platforms the for loop of _publish_post sends
\* a task for: those with an entry in post.platform_specific_content.
RECURSIVE with_content(_, _)
with_content(platforms, content) ==
  IF platforms = <<>> THEN <<>>
  ELSE IF Head(platforms) \in content
       THEN <<Head(platforms)>> \o with_content(Tail(platforms), content)
       ELSE with_content(Tail(platforms), content)

platforms_with_content(post) ==
  with_content(post.target_platforms, post.platform_specific_content)

\* One iteration of the for loop of coroutine d: `await self._publish_post(post_id)`
\* up to its first await (the first send_task), or up to its return when the
\* post is not found or has no platform to dispatch to.
PublishPost(d) ==
  /\ UNCHANGED <<dispatchVars, now, adaptVars, handlerVars, postingVars, auditVars>>
  /\ LoopIdle
  /\ drain_pc[d] = "iter"
  /\ drain_snap[d] # <<>>
  /\ LET post_id == Head(drain_snap[d])
         post == posts[post_id]
     IN /\ publish_calls' = [publish_calls EXCEPT ![post_id] =
                               IF @ < MaxCalls THEN @ + 1 ELSE @]
        /\ pass_left' = [pass_left EXCEPT ![d] = @ \ {post_id}]
        /\ IF post = NoPost
           THEN /\ publish_queue' = queue_remove(publish_queue, post_id)
                /\ drain_snap' = [drain_snap EXCEPT ![d] = Tail(@)]
                /\ UNCHANGED <<posts, drain_pc, drain_cur, drain_todo>>
           ELSE /\ posts' = [posts EXCEPT ![post_id] = published(@)]
                /\ IF platforms_with_content(post) = <<>>
                   THEN /\ publish_queue' = queue_remove(publish_queue, post_id)
                        /\ drain_snap' = [drain_snap EXCEPT ![d] = Tail(@)]
                        /\ UNCHANGED <<drain_pc, drain_cur, drain_todo>>
                   ELSE /\ drain_pc' = [drain_pc EXCEPT ![d] = "publishing"]
                        /\ drain_cur' = [drain_cur EXCEPT ![d] = post_id]
                        /\ drain_todo' = [drain_todo EXCEPT ![d] = platforms_with_content(post)]
                        /\ UNCHANGED <<publish_queue, drain_snap>>
  /\ UNCHANGED <<serving, has_queue, jobs, task_store, appended, passes, pass_failed, failed_publish>>
  /\ UNCHANGED <<runtimeVars, startVars, fire_pc>>

\* Variant of the pass whose try/except encloses the whole for loop instead of
\* one iteration: an exception of _publish_post ends the pass.
PublishPostRaises_Propagates(d, status_saved) ==
  /\ UNCHANGED <<dispatchVars, now, adaptVars, handlerVars, postingVars, auditVars>>
  /\ LoopIdle
  /\ drain_pc[d] = "iter"
  /\ drain_snap[d] # <<>>
  /\ LET post_id == Head(drain_snap[d])
     IN /\ publish_calls' = [publish_calls EXCEPT ![post_id] =
                               IF @ < MaxCalls THEN @ + 1 ELSE @]
        /\ pass_left' = [pass_left EXCEPT ![d] = @ \ {post_id}]
        /\ failed_publish' = failed_publish \cup {post_id}
        /\ pass_failed' = [pass_failed EXCEPT ![d] = @ \cup {post_id}]
        /\ posts' = IF status_saved /\ posts[post_id] # NoPost
                    THEN [posts EXCEPT ![post_id] = published(@)]
                    ELSE posts
        /\ drain_snap' = [drain_snap EXCEPT ![d] = <<>>]
  /\ UNCHANGED <<serving, drain_pc, drain_cur, drain_todo, queueVars, jobs, task_store, appended, passes>>
  /\ UNCHANGED <<runtimeVars, startVars, fire_pc>>

\* One iteration of the for loop in which `await self._publish_post(post_id)`
\* raises an Exception before its first await, either before or after it has
\* saved the post as published.  `except Exception as e:` of the pass logs it;
\* the remove that follows the await in the try is skipped and the for loop
\* goes on with the next post id.
PublishPostRaises(d, status_saved) ==
  /\ UNCHANGED <<dispatchVars, now, adaptVars, handlerVars, postingVars, auditVars>>
  /\ LoopIdle
  /\ drain_pc[d] = "iter"
  /\ drain_snap[d] # <<>>
  /\ LET post_id == Head(drain_snap[d])
     IN /\ publish_calls' = [publish_calls EXCEPT ![post_id] =
                               IF @ < MaxCalls THEN @ + 1 ELSE @]
        /\ pass_left' = [pass_left EXCEPT ![d] = @ \ {post_id}]
        /\ failed_publish' = failed_publish \cup {post_id}
        /\ pass_failed' = [pass_failed EXCEPT ![d] = @ \cup {post_id}]
        /\ posts' = IF status_saved /\ posts[post_id] # NoPost
                    THEN [posts EXCEPT ![post_id] = published(@)]
                    ELSE posts
        /\ drain_snap' = [drain_snap EXCEPT ![d] = Tail(@)]
  /\ UNCHANGED <<serving, drain_pc, drain_cur, drain_todo, queueVars, jobs, task_store, appended, passes>>
  /\ UNCHANGED <<runtimeVars, startVars, fire_pc>>

\* Variant of the for loop of _publish_post that gives up the remaining
\* platforms after a dispatch that failed.
remaining_platforms_StopsAtFailure(todo, delivered) ==
  IF delivered THEN Tail(todo) ELSE <<>>

\* The platforms the for loop of _publish_post still has to send to after
\* the send for the first of todo: the others, whatever the outcome (the
\* try/except around send_task is inside the loop).
remaining_platforms(todo, delivered) == Tail(todo)

\* `await self.send_task(...)` for the first platform of drain_todo completes
\* (create_task returns the Task, or None when the request fails or is not
\* answered with 201; it never raises and its result is not read).  After the last
\* platform _publish_post returns and the pass removes the id from the queue.
SendTaskReturns(d) ==
  /\ LoopIdle
  /\ drain_pc[d] = "publishing"
  /\ LET platform == Head(drain_todo[d])
         target == target_agent_id(platform)
         delivered == target \in reachable
         rest == remaining_platforms(drain_todo[d], delivered)
     IN /\ dispatched' = dispatched \cup
                           {[post_id |-> drain_cur[d], platform |-> platform,
                             delivered |-> delivered]}
        \* the facebook agent answers 201 after it has stored the task and
        \* queued _process_task for it
        /\ fb_inbox' = IF delivered /\ target = FacebookAgentId
                       THEN Append(fb_inbox, drain_cur[d]) ELSE fb_inbox
        /\ publish_sent' = [publish_sent EXCEPT ![drain_cur[d]][target] = @ + 1]
        /\ IF rest # <<>>
           THEN /\ drain_todo' = [drain_todo EXCEPT ![d] = rest]
                /\ UNCHANGED <<publish_queue, drain_snap, drain_pc, drain_cur>>
           ELSE /\ publish_queue' = queue_remove(publish_queue, drain_cur[d])
                /\ drain_snap' = [drain_snap EXCEPT ![d] = Tail(@)]
                /\ drain_pc' = [drain_pc EXCEPT ![d] = "iter"]
                /\ drain_cur' = [drain_cur EXCEPT ![d] = 0]
                /\ drain_todo' = [drain_todo EXCEPT ![d] = <<>>]
  /\ UNCHANGED <<reachable, fb_done, updates_sent, now, adaptVars, handlerVars,
                 postingVars, recorded, not_found>>
  /\ UNCHANGED <<serving, has_queue, histVars>>
  /\ UNCHANGED <<runtimeVars, storeVars, startVars, fire_pc>>

\* One iteration of the for loop of coroutine d in which
\* post_storage.get_post(post_id) returns None (the collection has no document
\* for the id, or the read raised and get_post caught it): _publish_post logs
\* and returns, and the pass removes the id from the queue.
PublishPostNotFound(d) ==
  /\ UNCHANGED <<dispatchVars, now, adaptVars, handlerVars, postingVars, recorded,
                 publish_sent>>
  /\ LoopIdle
  /\ drain_pc[d] = "iter"
  /\ drain_snap[d] # <<>>
  /\ LET post_id == Head(drain_snap[d])
     IN /\ publish_calls' = [publish_calls EXCEPT ![post_id] =
                               IF @ < MaxCalls THEN @ + 1 ELSE @]
        /\ pass_left' = [pass_left EXCEPT ![d] = @ \ {post_id}]
        /\ not_found' = not_found \cup {post_id}
        /\ publish_queue' = queue_remove(publish_queue, post_id)
        /\ drain_snap' = [drain_snap EXCEPT ![d] = Tail(@)]
  /\ UNCHANGED <<serving, has_queue, drain_pc, drain_cur, drain_todo, storeVars,
                 appended, passes, pass_failed, failed_publish>>
  /\ UNCHANGED <<runtimeVars, startVars, fire_pc>>

\* The responses of FacebookApiClient.publish_post to the task _publish_post
\* builds: the token is always "PLACEHOLDER_TOKEN", which the client rejects
\* unless it has already rejected the image path.
ApiErrors == {"Image file not found", "Invalid access token"}

\* FacebookPostingAgent: _process_task of the oldest accepted publish_post
\* task, i.e. _handle_publish_post and the update_status(COMPLETED) that
\* follows its return.  The task built by _publish_post passes the handler's
\* validation; the API response has no success, so the handler sends one
\* post_status_update with status "failure" to the content scheduler and sets
\* metadata["error"] to the API's error.  send_task returns None when the
\* dispatch fails and the handler does not read the result.
FacebookProcessPublishPost(error_message) ==
  /\ fb_inbox # <<>>
  /\ LET post_id == Head(fb_inbox)
         delivered == AgentId \in reachable
     IN /\ updates_sent' = [updates_sent EXCEPT ![post_id]["facebook"] =
                              IF @ < MaxCalls THEN @ + 1 ELSE @]
        /\ fb_done' = fb_done \cup
                        {[post_id |-> post_id, status |-> COMPLETED,
                          error |-> error_message, reported |-> "failure",
                          update_delivered |-> delivered]}
  /\ fb_inbox' = Tail(fb_inbox)
  /\ UNCHANGED <<reachable, dispatched, now, adaptVars, handlerVars, postingVars, auditVars>>
  /\ UNCHANGED <<runtimeVars, storeVars, queueVars, startVars, drainVars, histVars, fire_pc>>

\* The "application/json" data part of a publish_post task, as the dict
\* _handle_publish_post reads.  content: platform_specific_content is a
\* non-empty dict; text and image_reference are its entries ("" when absent).
BasePublishData == [json |-> TRUE, user_id |-> "u1", content |-> TRUE, text |-> "Hello",
                    image_reference |-> "", facebook_token |-> "token-1",
                    socialspark_post_id |-> 1]

PublishData(n) ==
  CASE n = "pub_ok"            -> BasePublishData
    [] n = "pub_ok_image"      -> [BasePublishData EXCEPT !.image_reference = "media/1.jpg"]
    [] n = "pub_placeholder"   -> [BasePublishData EXCEPT !.facebook_token = "PLACEHOLDER_TOKEN"]
    [] n = "pub_missing_image" -> [BasePublishData EXCEPT !.image_reference = "media/none.jpg"]
    [] n = "pub_no_user"       -> [BasePublishData EXCEPT !.user_id = ""]
    [] n = "pub_no_text"       -> [BasePublishData EXCEPT !.text = ""]
    [] n = "pub_no_post_id"    -> [BasePublishData EXCEPT !.socialspark_post_id = 0]
    [] OTHER                   -> [BasePublishData EXCEPT !.json = FALSE]

PublishPayloads == {"pub_ok", "pub_ok_image", "pub_placeholder", "pub_missing_image",
                    "pub_no_user", "pub_no_text", "pub_no_post_id", "pub_no_json"}

\* The paths for which os.path.exists is true on the facebook agent's host.
ExistingPaths == {"media/1.jpg"}

\* The ValueError text _handle_publish_post raises before it calls the API,
\* in the order of its checks; NoError when it raises none.
publish_validation_error(d) ==
  IF ~d.json THEN "No content data found in task"
  ELSE IF d.user_id = "" THEN "user_id is required"
  ELSE IF ~d.content THEN "platform_specific_content is required"
  ELSE IF d.facebook_token = "" THEN "facebook_token is required"
  ELSE IF d.socialspark_post_id = 0 THEN "socialspark_post_id is required"
  ELSE IF d.text = "" /\ d.image_reference = "" THEN "Post must have text and/or image"
  ELSE NoError

\* FacebookApiClient.publish_post(access_token, message, image_path): the
\* dict it returns.  The post id is f"fb_mock_{datetime.now().timestamp():.0f}".
api_publish_post(access_token, message, image_path) ==
  IF message = "" /\ image_path = ""
  THEN [success |-> FALSE, post_id |-> <<>>, error |-> "Post must contain message, image, or link"]
  ELSE IF image_path # "" /\ image_path \notin ExistingPaths
  THEN [success |-> FALSE, post_id |-> <<>>, error |-> "Image file not found: media/none.jpg"]
  ELSE IF access_token = "" \/ access_token = "PLACEHOLDER_TOKEN"
  THEN [success |-> FALSE, post_id |-> <<>>, error |-> "Invalid access token"]
  ELSE [success |-> TRUE, post_id |-> <<"fb_mock", now>>, error |-> ""]

\* The data of the task _send_post_status_update sends for task id.
post_status_update(id, socialspark_post_id, status, platform_post_id, error_message) ==
  [task |-> id, target |-> AgentId, type |-> "post_status_update",
   socialspark_post_id |-> socialspark_post_id, platform |-> "facebook",
   status |-> status, platform_post_id |-> platform_post_id,
   error_message |-> error_message]

\* POST /tasks of the facebook agent accepts a publish_post task addressed to
\* it under an id it has no task for: the task is stored, set in_progress and
\* its _process_task is queued.
FacebookReceive(id, payload) ==
  /\ fb_tasks[id] = NoFbTask
  /\ fb_tasks' = [fb_tasks EXCEPT ![id] =
                    [NoFbTask EXCEPT !.payload = payload, !.status = IN_PROGRESS,
                                     !.pc = "scheduled"]]
  /\ UNCHANGED <<fb_sent, handlerVars, auditVars, dispatchVars, now, adaptVars>>
  /\ UNCHANGED <<runtimeVars, storeVars, queueVars, startVars, drainVars, histVars, fire_pc>>

\* Variant of _handle_publish_post whose except branch sends no status
\* update.
FacebookHandlePublishPost_Silent(id) ==
  /\ fb_tasks[id].pc = "scheduled"
  /\ LET task == fb_tasks[id]
         d == PublishData(task.payload)
         err == publish_validation_error(d)
         api_response == api_publish_post(d.facebook_token, d.text, d.image_reference)
     IN IF err # NoError
        THEN /\ fb_tasks' = [fb_tasks EXCEPT ![id] =
                               [task EXCEPT !.error = err, !.status = COMPLETED, !.pc = "done"]]
             /\ UNCHANGED fb_sent
        ELSE /\ fb_tasks' = [fb_tasks EXCEPT ![id] =
                               [task EXCEPT !.response = api_response, !.pc = "sending"]]
             /\ fb_sent' = Append(fb_sent,
                   IF api_response.success
                   THEN post_status_update(id, d.socialspark_post_id, "success",
                                           api_response.post_id, "")
                   ELSE post_status_update(id, d.socialspark_post_id, "failure",
                                           <<>>, api_response.error))
  /\ UNCHANGED <<handlerVars, auditVars, dispatchVars, now, adaptVars>>
  /\ UNCHANGED <<runtimeVars, storeVars, queueVars, startVars, drainVars, histVars, fire_pc>>

\* _process_task(task) of the facebook agent from its start to the first
\* await of _handle_publish_post that suspends: the request of
\* _send_post_status_update (FacebookApiClient.publish_post awaits nothing).
\* When the handler raises before that, its except branch sets
\* metadata["error"] and the status failed and, if the payload has a
\* socialspark_post_id, sends a "failure" update; without one the handler
\* returns and _process_task sets the status completed in the same step.
FacebookHandlePublishPost(id) ==
  /\ fb_tasks[id].pc = "scheduled"
  /\ LET task == fb_tasks[id]
         d == PublishData(task.payload)
         err == publish_validation_error(d)
         api_response == api_publish_post(d.facebook_token, d.text, d.image_reference)
     IN IF err # NoError
        THEN IF d.json /\ d.socialspark_post_id # 0
             THEN /\ fb_tasks' = [fb_tasks EXCEPT ![id] =
                                    [task EXCEPT !.error = err, !.status = FAILED,
                                                 !.pc = "sending_failure"]]
                  /\ fb_sent' = Append(fb_sent,
                        post_status_update(id, d.socialspark_post_id, "failure", <<>>, err))
             ELSE /\ fb_tasks' = [fb_tasks EXCEPT ![id] =
                                    [task EXCEPT !.error = err, !.status = COMPLETED,
                                                 !.pc = "done"]]
                  /\ UNCHANGED fb_sent
        ELSE /\ fb_tasks' = [fb_tasks EXCEPT ![id] =
                               [task EXCEPT !.response = api_response, !.pc = "sending"]]
             /\ fb_sent' = Append(fb_sent,
                   IF api_response.success
                   THEN post_status_update(id, d.socialspark_post_id, "success",
                                           api_response.post_id, "")
                   ELSE post_status_update(id, d.socialspark_post_id, "failure",
                                           <<>>, api_response.error))
  /\ UNCHANGED <<handlerVars, auditVars, dispatchVars, now, adaptVars>>
  /\ UNCHANGED <<runtimeVars, storeVars, queueVars, startVars, drainVars, histVars, fire_pc>>

\* The send of the status update is over (create_task returns the Task or
\* None and never raises; the result is not read).  After a success the
\* handler sends the report to the analytics agent and sets
\* metadata["facebook_post_id"]; after a failure it sets metadata["error"];
\* it saves the task and returns.  In the except branch it just returns.
\* _process_task then sets the status completed.
FacebookSendReturns(id) ==
  /\ fb_tasks[id].pc \in {"sending", "sending_failure"}
  /\ LET task == fb_tasks[id]
     IN fb_tasks' = [fb_tasks EXCEPT ![id] =
          IF task.pc = "sending_failure"
          THEN [task EXCEPT !.status = COMPLETED, !.pc = "done"]
          ELSE IF task.response.success
          THEN [task EXCEPT !.facebook_post_id = task.response.post_id,
                            !.report_sent = TRUE, !.stored = task.status,
                            !.status = COMPLETED, !.pc = "done"]
          ELSE [task EXCEPT !.error = task.response.error, !.stored = task.status,
                            !.status = COMPLETED, !.pc = "done"]]
  /\ UNCHANGED <<fb_sent, handlerVars, auditVars, dispatchVars, now, adaptVars>>
  /\ UNCHANGED <<runtimeVars, storeVars, queueVars, startVars, drainVars, histVars, fire_pc>>

\* The for loop of coroutine d is exhausted.  The startup event then creates
\* the task check_queue_periodically (asyncio.create_task: it runs up to its
\* asyncio.sleep(30)) and returns, and the server begins to accept requests;
\* the periodic task goes back to asyncio.sleep(30).
PassEnd(d) ==
  /\ UNCHANGED <<dispatchVars, now, adaptVars, handlerVars, postingVars, auditVars>>
  /\ LoopIdle
  /\ drain_pc[d] = "iter"
  /\ drain_snap[d] = <<>>
  /\ IF d = STARTUP
     THEN /\ drain_pc' = [drain_pc EXCEPT ![STARTUP] = "done", ![PERIODIC] = "sleep"]
          /\ serving' = TRUE
     ELSE /\ drain_pc' = [drain_pc EXCEPT ![d] = "sleep"]
          /\ UNCHANGED serving
  /\ passes' = EndPass
  /\ UNCHANGED <<drain_snap, drain_cur, drain_todo, publish_calls, appended,
                 pass_left, pass_failed, failed_publish>>
  /\ UNCHANGED <<runtimeVars, storeVars, queueVars, startVars, fire_pc>>

\* asyncio.sleep(30) is over: the next pass of check_queue_periodically.
PeriodicPass ==
  /\ UNCHANGED <<dispatchVars, now, adaptVars, handlerVars, postingVars, auditVars>>
  /\ LoopIdle
  /\ drain_pc[PERIODIC] = "sleep"
  /\ drain_snap' = [drain_snap EXCEPT ![PERIODIC] = publish_queue]
  /\ pass_left' = [pass_left EXCEPT ![PERIODIC] = ListIds(publish_queue)]
  /\ pass_failed' = [pass_failed EXCEPT ![PERIODIC] = {}]
  /\ drain_pc' = [drain_pc EXCEPT ![PERIODIC] = "iter"]
  /\ passes' = BeginPass
  /\ UNCHANGED <<serving, drain_cur, drain_todo, publish_calls, appended, failed_publish>>
  /\ UNCHANGED <<runtimeVars, storeVars, queueVars, startVars, fire_pc>>

\* ------------------------------------------------------------ specification
Next ==
  \/ RegisterTaskHandler("custom", H_CUSTOM)
  \/ \E id \in TaskIds, type \in TaskTypes, target \in {AgentId, OtherAgentId} :
       \E data \in DataOf(type) :
         HandleIncomingTask(id, type, target, data) /\ nobj' <= MaxObj
  \/ \E id \in TaskIds, value \in TaskStatus : UpdateTask(id, value)
  \/ \E o \in Objs : ProcessStart(o)
  \/ \E o \in Objs : CustomHandlerReturn(o)
  \/ \E o \in Objs, msg \in ExcMessages : CustomHandlerRaise(o, msg)
  \/ \E o \in Objs : ProcessFinish(o)
  \/ StartScheduler
  \/ StartCheckQueue
  \/ StartInitQueue
  \/ \E p \in PostIds : FireJob(p)
  \/ \E p \in PostIds : WrapperInitQueue(p)
  \/ \E p \in PostIds : WrapperAppend(p)
  \/ ProcessPublishQueue
  \/ \E d \in Drainers : PublishPost(d)
  \/ \E d \in Drainers : SendTaskReturns(d)
  \/ \E d \in Drainers : PassEnd(d)
  \/ PeriodicPass
  \/ \E d \in Drainers, status_saved \in BOOLEAN : PublishPostRaises(d, status_saved)
  \/ \E p \in PostIds, t \in ScheduleTimes : SchedulePostPublicationAgain(p, t)
  \/ \E e \in ApiErrors : FacebookProcessPublishPost(e)
  \/ Tick
  \/ Adapt

Spec == Init /\ [][Next]_vars

\* The Agent Runtime receiving and processing every kind of task, after a
\* start-up in which no job fires: the timer context and the periodic drain
\* take no step (their actions leave the runtime's variables unchanged), and
\* no client sends a PATCH.
ProcessingNext ==
  \/ RegisterTaskHandler("custom", H_CUSTOM)
  \/ \E id \in TaskIds, type \in TaskTypes, target \in {AgentId, OtherAgentId} :
       \E data \in DataOf(type) :
         HandleIncomingTask(id, type, target, data) /\ nobj' <= MaxObj
  \/ \E o \in Objs : ProcessStart(o)
  \/ \E o \in Objs : CustomHandlerReturn(o)
  \/ \E o \in Objs, msg \in ExcMessages : CustomHandlerRaise(o, msg)
  \/ \E o \in Objs : ProcessFinish(o)
  \/ StartScheduler
  \/ StartCheckQueue
  \/ StartInitQueue
  \/ ProcessPublishQueue
  \/ PassEnd(STARTUP)

ProcessingSpec == Init /\ [][ProcessingNext]_vars

\* The Agent Runtime with the PATCH endpoint in use as well, the payloads
\* drawn from CoreDataOf.
RuntimeNext ==
  \/ RegisterTaskHandler("custom", H_CUSTOM)
  \/ \E id \in TaskIds, type \in TaskTypes, target \in {AgentId, OtherAgentId} :
       \E data \in CoreDataOf(type) :
         HandleIncomingTask(id, type, target, data) /\ nobj' <= MaxObj
  \/ \E id \in TaskIds, value \in TaskStatus : UpdateTask(id, value)
  \/ \E o \in Objs : ProcessStart(o)
  \/ \E o \in Objs : CustomHandlerReturn(o)
  \/ \E o \in Objs, msg \in ExcMessages : CustomHandlerRaise(o, msg)
  \/ \E o \in Objs : ProcessFinish(o)
  \/ StartScheduler
  \/ StartCheckQueue
  \/ StartInitQueue
  \/ ProcessPublishQueue
  \/ PassEnd(STARTUP)

RuntimeSpec == Init /\ [][RuntimeNext]_vars

\* The scheduler bridge: start(), the timer context and the drain loop, with
\* the requests that register jobs (valid process_and_schedule_post tasks).
SchedulerNext ==
  \/ \E id \in TaskIds :
       HandleIncomingTask(id, "process_and_schedule_post", AgentId, "sched_ok")
         /\ nobj' <= MaxObj
  \/ \E o \in Objs : ProcessStart(o)
  \/ \E o \in Objs : ProcessFinish(o)
  \/ StartScheduler
  \/ StartCheckQueue
  \/ StartInitQueue
  \/ \E p \in PostIds : FireJob(p)
  \/ \E p \in PostIds : WrapperInitQueue(p)
  \/ \E p \in PostIds : WrapperAppend(p)
  \/ ProcessPublishQueue
  \/ \E d \in Drainers : PublishPost(d)
  \/ \E d \in Drainers : SendTaskReturns(d)
  \/ \E d \in Drainers : PassEnd(d)
  \/ PeriodicPass

SchedulerSpec == Init /\ [][SchedulerNext]_vars

\* The scheduler bridge when an invocation of _publish_post may raise.
DrainFaultNext ==
  \/ HandleIncomingTask("t1", "process_and_schedule_post", AgentId, "sched_ok")
         /\ nobj' <= MaxObj
  \/ \E o \in Objs : ProcessStart(o)
  \/ \E o \in Objs : ProcessFinish(o)
  \/ StartScheduler
  \/ StartCheckQueue
  \/ StartInitQueue
  \/ \E p \in PostIds : FireJob(p)
  \/ \E p \in PostIds : WrapperInitQueue(p)
  \/ \E p \in PostIds : WrapperAppend(p)
  \/ ProcessPublishQueue
  \/ \E d \in Drainers : PublishPost(d)
  \/ \E d \in Drainers, status_saved \in BOOLEAN : PublishPostRaises(d, status_saved)
  \/ \E d \in Drainers : SendTaskReturns(d)
  \/ \E d \in Drainers : PassEnd(d)
  \/ PeriodicPass

DrainFaultSpec == Init /\ [][DrainFaultNext]_vars

\* The scheduler bridge with publications registered a second time while
\* their job is pending.
RegistrationNext ==
  \/ \E id \in TaskIds :
       HandleIncomingTask(id, "process_and_schedule_post", AgentId, "sched_ok")
         /\ nobj' <= MaxObj
  \/ \E o \in Objs : ProcessStart(o)
  \/ \E o \in Objs : ProcessFinish(o)
  \/ \E p \in PostIds, t \in ScheduleTimes : SchedulePostPublicationAgain(p, t)
  \/ StartScheduler
  \/ StartCheckQueue
  \/ StartInitQueue
  \/ \E p \in PostIds : FireJob(p)
  \/ \E p \in PostIds : WrapperInitQueue(p)
  \/ \E p \in PostIds : WrapperAppend(p)
  \/ ProcessPublishQueue
  \/ \E d \in Drainers : PublishPost(d)
  \/ \E d \in Drainers : SendTaskReturns(d)
  \/ \E d \in Drainers : PassEnd(d)
  \/ PeriodicPass

RegistrationSpec == Init /\ [][RegistrationNext]_vars

\* Content adaptation on its own.
AdaptNext == Adapt

AdaptSpec == AdaptInit /\ [][AdaptNext]_vars

\* The life of a post: scheduling requests, the scheduler bridge, and the
\* status updates that come back for published posts.
LifecycleNext ==
  \/ HandleIncomingTask("t1", "process_and_schedule_post", AgentId, "sched_ok")
       /\ nobj' <= MaxObj
  \/ \E data \in {"upd_success", "upd_failure"} :
       HandleIncomingTask("t2", "post_status_update", AgentId, data) /\ nobj' <= MaxObj
  \/ \E o \in Objs : ProcessStart(o)
  \/ \E o \in Objs : ProcessFinish(o)
  \/ StartScheduler
  \/ StartCheckQueue
  \/ StartInitQueue
  \/ \E p \in PostIds : FireJob(p)
  \/ \E p \in PostIds : WrapperInitQueue(p)
  \/ \E p \in PostIds : WrapperAppend(p)
  \/ ProcessPublishQueue
  \/ \E d \in Drainers : PublishPost(d)
  \/ \E d \in Drainers : SendTaskReturns(d)
  \/ \E d \in Drainers : PassEnd(d)
  \/ PeriodicPass

LifecycleSpec == Init /\ [][LifecycleNext]_vars

\* The Agent Runtime of the content scheduler while time passes.
ClockNext ==
  \/ \E id \in TaskIds, type \in TaskTypes :
       \E data \in CoreDataOf(type) :
         HandleIncomingTask(id, type, AgentId, data) /\ nobj' <= MaxObj
  \/ \E o \in Objs : ProcessStart(o)
  \/ \E o \in Objs : ProcessFinish(o)
  \/ StartScheduler
  \/ StartCheckQueue
  \/ StartInitQueue
  \/ ProcessPublishQueue
  \/ PassEnd(STARTUP)
  \/ Tick

ClockSpec == Init /\ [][ClockNext]_vars

\* The Agent Runtime receiving up to MaxReceived tasks, task ids repeated.
ReceiveNext ==
  \/ RegisterTaskHandler("custom", H_CUSTOM)
  \/ \E id \in TaskIds, type \in {"custom", "post_status_update"} :
       \E data \in CoreDataOf(type) : HandleIncomingTask(id, type, AgentId, data)
  \/ \E o \in Objs : ProcessStart(o)
  \/ \E o \in Objs : CustomHandlerReturn(o)
  \/ \E o \in Objs, msg \in ExcMessages : CustomHandlerRaise(o, msg)
  \/ \E o \in Objs : ProcessFinish(o)
  \/ StartScheduler
  \/ StartCheckQueue
  \/ StartInitQueue
  \/ ProcessPublishQueue
  \/ PassEnd(STARTUP)

ReceiveSpec == Init /\ [][ReceiveNext]_vars

\* The Agent Runtime while handlers are registered again and again: the two
\* task types below get either handler, before and after tasks are received.
HandlerTypes == {"custom", "post_status_update"}

HandlerNext ==
  \/ \E type \in HandlerTypes, handler \in {H_CUSTOM, H_UPD} :
       RegisterTaskHandler(type, handler)
  \/ \E id \in TaskIds, type \in HandlerTypes :
       \E data \in CoreDataOf(type) :
         HandleIncomingTask(id, type, AgentId, data) /\ nobj' <= MaxObj
  \/ \E o \in Objs : ProcessStart(o)
  \/ \E o \in Objs : CustomHandlerReturn(o)
  \/ \E o \in Objs : ProcessFinish(o)
  \/ StartScheduler
  \/ StartCheckQueue
  \/ StartInitQueue
  \/ ProcessPublishQueue
  \/ PassEnd(STARTUP)

HandlerSpec == Init /\ [][HandlerNext]_vars

\* The facebook posting agent receiving and processing publish_post tasks
\* while time passes.
PostingNext ==
  \/ \E id \in FbTaskIds, payload \in PublishPayloads : FacebookReceive(id, payload)
  \/ \E id \in FbTaskIds : FacebookHandlePublishPost(id)
  \/ \E id \in FbTaskIds : FacebookSendReturns(id)
  \/ Tick

PostingSpec == Init /\ [][PostingNext]_vars

\* Publication end to end: the scheduler bridge and the facebook agent, in
\* deployments where dispatches reach some of the agents.
DispatchNext ==
  \/ StartScheduler
  \/ StartCheckQueue
  \/ StartInitQueue
  \/ \E p \in PostIds : FireJob(p)
  \/ \E p \in PostIds : WrapperInitQueue(p)
  \/ \E p \in PostIds : WrapperAppend(p)
  \/ ProcessPublishQueue
  \/ \E d \in Drainers : PublishPost(d)
  \/ \E d \in Drainers : SendTaskReturns(d)
  \/ \E d \in Drainers : PassEnd(d)
  \/ PeriodicPass
  \/ \E e \in ApiErrors : FacebookProcessPublishPost(e)

DispatchSpec == DispatchInit /\ [][DispatchNext]_vars

\* Status updates for the first post, one from each of two platforms, handled
\* while the scheduler bridge publishes that post and time passes.
UpdateNext ==
  \/ \E data \in {"upd_success", "upd_failure"} :
       tasks["t1"] = 0 /\ HandleIncomingTask("t1", "post_status_update", AgentId, data)
  \/ tasks["t2"] = 0 /\ HandleIncomingTask("t2", "post_status_update", AgentId, "upd_success_tw")
  \/ \E o \in Objs : ProcessStart(o)
  \/ \E o \in Objs : ProcessFinish(o)
  \/ StartScheduler
  \/ StartCheckQueue
  \/ StartInitQueue
  \/ FireJob(1)
  \/ WrapperInitQueue(1)
  \/ WrapperAppend(1)
  \/ ProcessPublishQueue
  \/ \E d \in Drainers : PublishPost(d)
  \/ \E d \in Drainers : SendTaskReturns(d)
  \/ \E d \in Drainers : PassEnd(d)
  \/ PeriodicPass
  \/ Tick /\ now' <= 1

UpdateSpec == Init /\ [][UpdateNext]_vars

\* The scheduler bridge with schedule requests of every kind, valid and
\* failing each validation check.
ValidationNext ==
  \/ \E data \in DataOf("process_and_schedule_post") :
       HandleIncomingTask("t1", "process_and_schedule_post", AgentId, data)
         /\ nobj' <= MaxObj
  \/ \E o \in Objs : ProcessStart(o)
  \/ \E o \in Objs : ProcessFinish(o)
  \/ StartScheduler
  \/ StartCheckQueue
  \/ StartInitQueue
  \/ \E p \in PostIds : FireJob(p)
  \/ \E p \in PostIds : WrapperInitQueue(p)
  \/ \E p \in PostIds : WrapperAppend(p)
  \/ ProcessPublishQueue
  \/ \E d \in Drainers : PublishPost(d)
  \/ \E d \in Drainers : SendTaskReturns(d)
  \/ \E d \in Drainers : PassEnd(d)
  \/ PeriodicPass

ValidationSpec == Init /\ [][ValidationNext]_vars

\* Two valid schedule requests, each received once, whose save_post may
\* fail, next to the jobs of an earlier run, their firing and the drain.
SaveNext ==
  \/ tasks["t1"] = 0
       /\ HandleIncomingTask("t1", "process_and_schedule_post", AgentId, "sched_one_valid")
  \/ tasks["t2"] = 0
       /\ HandleIncomingTask("t2", "process_and_schedule_post", AgentId, "sched_ok")
  \/ \E o \in Objs : ProcessStart(o)
  \/ \E o \in Objs : ProcessFinish(o)
  \/ StartScheduler
  \/ StartCheckQueue
  \/ StartInitQueue
  \/ \E p \in PostIds : FireJob(p)
  \/ \E p \in PostIds : WrapperInitQueue(p)
  \/ \E p \in PostIds : WrapperAppend(p)
  \/ ProcessPublishQueue
  \/ \E d \in Drainers : PublishPost(d)
  \/ \E d \in Drainers : SendTaskReturns(d)
  \/ \E d \in Drainers : PassEnd(d)
  \/ PeriodicPass

SaveSpec == Init /\ [][SaveNext]_vars

\* The publish handler on its own: posts created by requests (one of two
\* named platforms valid, one platform named twice) and posts of an earlier
\* run are published in deployments where dispatches reach some of the
\* agents, and the read of a post may find nothing.
PublishNext ==
  \/ \E data \in {"sched_one_valid", "sched_twice"} :
       HandleIncomingTask("t1", "process_and_schedule_post", AgentId, data)
         /\ nobj' <= MaxObj
  \/ \E o \in Objs : ProcessStart(o)
  \/ \E o \in Objs : ProcessFinish(o)
  \/ StartScheduler
  \/ StartCheckQueue
  \/ StartInitQueue
  \/ \E p \in PostIds : FireJob(p)
  \/ \E p \in PostIds : WrapperInitQueue(p)
  \/ \E p \in PostIds : WrapperAppend(p)
  \/ ProcessPublishQueue
  \/ \E d \in Drainers : PublishPost(d)
  \/ \E d \in Drainers : PublishPostNotFound(d)
  \/ \E d \in Drainers : SendTaskReturns(d)
  \/ \E d \in Drainers : PassEnd(d)
  \/ PeriodicPass

PublishSpec == DispatchInit /\ [][PublishNext]_vars

\* ================================================================= claims
\* The edges of the task state machine (spec 4.1).
Edges == {<<PENDING, IN_PROGRESS>>, <<IN_PROGRESS, COMPLETED>>,
          <<IN_PROGRESS, FAILED>>, <<PENDING, CANCELED>>}

\* Every Task object keeps its status or moves it along an edge in this step.
\* A Task object is created pending (A2AClient.create_task).
StepAlongEdges ==
  \A o \in Objs :
    \/ heap'[o].status = heap[o].status
    \/ <<heap[o].status, heap'[o].status>> \in Edges

IsPatch == \E id \in TaskIds, value \in TaskStatus : UpdateTask(id, value)

HandlerStarted(o) == pc[o] \in {"running", "returned", "raised", "done"}

\* C1: in every step of receive, of background processing and of a handler
\* the status of every task changes only along an edge of the state machine,
\* so never out of a terminal status.
C1_StatusOnlyAlongEdges == [][StepAlongEdges]_vars

\* C2: once a scheduler firing has appended a post id and a drain pass begun
\* after that append has ended, _publish_post has been invoked exactly once
\* for the post id; it is never invoked more than once.
C2_PublishedExactlyOnce ==
  \A p \in PostIds :
    /\ publish_calls[p] <= 1
    /\ passes[p] = 2 => publish_calls[p] = 1

\* At most one invocation of _publish_post per post id (the part of C2 that
\* does not depend on the append reaching the drain loop).
PublishedAtMostOnce == \A p \in PostIds : publish_calls[p] <= 1

\* C3: a post id appended by a firing is in the Publish Queue until the drain
\* loop has invoked the publish handler for it.
C3_NoAppendLost ==
  \A p \in PostIds :
    (appended[p] /\ publish_calls[p] = 0) => (has_queue /\ InList(publish_queue, p))

\* C4: when background processing of a task whose handler raised ends, the
\* task is failed and its metadata holds a non-empty error message.
C4_RaiseLeavesFailedWithMessage ==
  [][\A o \in Objs :
       (pc[o] = "raised" /\ pc'[o] = "done")
         => (heap'[o].status = FAILED /\ heap'[o].error \notin {NoError, ""})]_vars

\* C5: when background processing of a process_and_schedule_post task that
\* failed validation ends, the task is failed and its metadata holds the
\* validation error text.
C5_ValidationFailureEndsFailed ==
  [][\A o \in Objs :
       (/\ pc[o] = "returned" /\ pc'[o] = "done"
        /\ heap[o].type = "process_and_schedule_post"
        /\ schedule_validation_error(Data(heap[o].data)) # NoError)
         => (/\ heap'[o].status = FAILED
             /\ heap'[o].error = schedule_validation_error(Data(heap[o].data)))]_vars

\* C6: a PATCH of the status changes a task's status only along an edge of
\* the state machine.
C6_PatchOnlyAlongEdges == [][IsPatch => StepAlongEdges]_vars

\* C7: an accepted receive stores the task under its id, sets it in_progress
\* and answers 201 with the in_progress task while the handler run is only
\* scheduled, not started.  (An accepted receive creates a Task object, so
\* only steps that change nobj need to be examined.)
C7_AcceptedReceiveReturnsInProgress ==
  [][nobj' # nobj =>
       \A id \in TaskIds, type \in TaskTypes :
         \A data \in DataOf(type) :
           (/\ task_handlers[type] # NoHandler
            /\ response'.id = id
            /\ HandleIncomingTask(id, type, AgentId, data))
             => (/\ tasks'[id] = nobj + 1
                 /\ heap'[tasks'[id]].id = id
                 /\ heap'[tasks'[id]].status = IN_PROGRESS
                 /\ pc'[tasks'[id]] = "scheduled"
                 /\ response' = [id |-> id, code |-> 201, status |-> IN_PROGRESS])]_vars

\* C7 witness: the answer 201 has been sent for a stored in_progress task
\* whose handler has not started.
C7_Witness ==
  /\ response.code = 201
  /\ tasks[response.id] # 0
  /\ heap[tasks[response.id]].status = IN_PROGRESS
  /\ pc[tasks[response.id]] = "scheduled"

\* C8: GET never answers pending for a task whose handler has started.
C8_NoPendingAfterHandlerStart ==
  \A id \in TaskIds :
    (tasks[id] # 0 /\ HandlerStarted(tasks[id])) => get_task(id).status # PENDING

\* C9: a receive rejected for its target or its task type answers 400 and
\* leaves the task table, every stored task and the scheduled handler runs
\* unchanged; a task id absent before it is absent (GET: 404) after it.
\* (A receive step changes the answer or creates a Task object; a step that
\* stores nothing for id needs no look at the inputs that could have made it.)
C9_RejectedReceiveStoresNothing ==
  [][(response' # response \/ nobj' # nobj) =>
       \A id \in TaskIds :
         \/ /\ response'.code = 400
            /\ UNCHANGED <<tasks, heap, nobj, pc>>
            /\ (get_task(id).code = 404 => tasks'[id] = 0)
         \/ \A type \in TaskTypes, target \in {AgentId, OtherAgentId} :
              \A data \in DataOf(type) :
                ~ (/\ (target # AgentId \/ task_handlers[type] = NoHandler)
                   /\ response'.id = id
                   /\ HandleIncomingTask(id, type, target, data))]_vars

\* C9 witness: a receive has been rejected while another task is stored, and
\* the rejected id is absent from the table.
C9_Witness ==
  /\ response.code = 400
  /\ tasks[response.id] = 0
  /\ get_task(response.id).code = 404
  /\ \E id \in TaskIds : tasks[id] # 0

\* C10: a task whose background processing is over and whose status is
\* terminal stays terminal.
C10_StaysTerminal ==
  [][\A o \in Objs :
       (pc[o] = "done" /\ heap[o].status \in Terminal) => heap'[o].status \in Terminal]_vars

\* An invocation of _publish_post(p) by coroutine d is in progress.
InFlight(d, p) == drain_pc[d] = "publishing" /\ drain_cur[d] = p

\* C11: a post id appended by a firing has been handed to _publish_post once
\* a drain pass begun after the append has ended.
C11_AppendedIsHandedOver ==
  \A p \in PostIds : (appended[p] /\ passes[p] = 2) => publish_calls[p] >= 1

\* C12: no two invocations of _publish_post for the same post id are in
\* progress at the same time.
C12_NoOverlappingPublish ==
  \A p \in PostIds : Cardinality({d \in Drainers : InFlight(d, p)}) <= 1

\* C12 witness: a second invocation for a post id is in progress (the first
\* one is over).
C12_Witness ==
  \E p \in PostIds, d \in Drainers : InFlight(d, p) /\ publish_calls[p] = 2

\* C13: while an invocation of _publish_post for a post id is in progress the
\* id is not in the Publish Queue (it was removed before the invocation began).
C13_RemovedBeforeInvocation ==
  \A d \in Drainers, p \in PostIds : InFlight(d, p) => ~InList(publish_queue, p)

\* C14: in a pass in which an invocation raised, every post id of the pass's
\* list not yet invoked is still to be iterated; the step in which it raises
\* leaves the coroutine in its for loop and the timer context and the job
\* store as they were.
C14_RaiseDoesNotStarvePass ==
  /\ [](\A d \in Drainers :
          pass_failed[d] # {} => pass_left[d] \subseteq ListIds(drain_snap[d]))
  /\ [][\A d \in Drainers :
          pass_failed'[d] \notin {pass_failed[d], {}}
            => (drain_pc'[d] = "iter" /\ UNCHANGED <<fire_pc, jobs, sched_running>>)]_vars

\* C14 witness: after an invocation raised in a pass, the same pass has
\* invoked _publish_post for another post id.
C14_Witness ==
  \E d \in Drainers, p, q \in PostIds :
    p # q /\ p \in pass_failed[d] /\ InFlight(d, q)

\* C15: once an invocation of _publish_post for a post id has raised,
\* _publish_post is not invoked for that post id again.
C15_NoRetryAfterRaise ==
  [][\A p \in failed_publish : publish_calls'[p] = publish_calls[p]]_vars

\* C16: while an invocation of _publish_post awaits its dispatch, the drain
\* loop can go on to the next post id of its pass and the scheduler can fire
\* a due job.
C16_BlockedHandlerBlocksOnlyItself ==
  \A d \in Drainers :
    drain_pc[d] = "publishing" =>
      /\ Len(drain_snap[d]) > 1 => ENABLED (\E e \in Drainers : PublishPost(e))
      /\ \A p \in PostIds :
           (sched_running /\ fire_pc[p] = "idle" /\ JobsOf(p) # {}) => ENABLED FireJob(p)

\* C17: a second registration for a post id whose job is pending, with a
\* different due time, leaves exactly one pending job for the post id, with
\* the due time and the argument of the second registration; no post id ever
\* has two pending jobs, so one firing follows.
C17_ReregistrationReplacesJob ==
  /\ [](\A p \in PostIds : Cardinality(JobsOf(p)) <= 1)
  /\ [][jobs' # jobs =>
          \A p \in PostIds, t \in ScheduleTimes :
            SchedulePostPublicationAgain(p, t)
              => {j \in jobs' : j.id = p} = {[id |-> p, run_date |-> t, arg |-> p]}]_vars

\* C17 witness: the pending job of a post registered for the first instant
\* carries the second one.
C17_Witness ==
  \E p \in PostIds :
    JobsOf(p) = {[id |-> p, run_date |-> "2030-01-02T00:00:00+00:00", arg |-> p]}

\* C18: the steps of a firing (publish_post_wrapper) invoke no _publish_post,
\* dispatch nothing and leave the post store, the task table and the tasks
\* unchanged.
C18_FiringOnlyAppends ==
  [][fire_pc' # fire_pc =>
       UNCHANGED <<posts, tasks, heap, nobj, pc, publish_calls, drainVars>>]_vars

\* C18 witness: a firing has appended its post id and returned; the post is
\* still scheduled and _publish_post has not been invoked for it.
C18_Witness ==
  \E p \in PostIds :
    /\ fire_pc[p] = "done" /\ appended[p]
    /\ publish_calls[p] = 0 /\ posts[p].status = SCHEDULED

\* C20: the Task Store holds a document for every accepted task: in_progress
\* from the receive on, and with the status and metadata of the in-memory
\* task once background processing has ended.
C20_TaskStoreFollowsTask ==
  \A id \in TaskIds :
    tasks[id] # 0 =>
      LET o == tasks[id]
      IN /\ task_store[id] # NoRecord
         /\ pc[o] = "scheduled" => task_store[id].status = IN_PROGRESS
         /\ pc[o] = "done" =>
              /\ task_store[id].status = heap[o].status
              /\ task_store[id].error = heap[o].error
              /\ task_store[id].post_id = heap[o].post_id

\* C21: once the job of a stored post has fired and a drain pass begun after
\* the firing's append has ended, the stored post's status is published.
C21_DrainedPostIsPublished ==
  \A p \in PostIds :
    (appended[p] /\ passes[p] = 2 /\ posts[p] # NoPost) => posts[p].status = PUBLISHED

\* The publication of post p has run to its end: its job has fired, an
\* invocation of _publish_post has returned, none is in progress or pending,
\* and the facebook agent has processed every publish_post task it accepted.
PublicationSettled(p) ==
  /\ posts[p] # NoPost
  /\ JobsOf(p) = {}
  /\ publish_calls[p] >= 1
  /\ ~InList(publish_queue, p)
  /\ \A d \in Drainers : drain_cur[d] # p /\ ~InList(drain_snap[d], p)
  /\ fire_pc[p] = "done"
  /\ fb_inbox = <<>>

\* C22: for a post scheduled for facebook and twitter, once its publication
\* has run to its end, exactly one status-update task per target platform
\* has been sent to the content scheduler agent.
C22_OneStatusUpdatePerPlatform ==
  \A p \in PostIds :
    (PublicationSettled(p) /\ posts[p].target_platforms = <<"facebook", "twitter">>)
      => (updates_sent[p]["facebook"] = 1 /\ updates_sent[p]["twitter"] = 1)

\* What create_task logs when a dispatch fails: the text of a transport
\* error, or of an answer other than 201.
DispatchErrors == {"Error creating task", "Failed to create task"}

\* C23: when the dispatch a handler issued has failed, the metadata of the
\* task that handler processed records the dispatch failure.
C23_DispatchFailureInMetadata ==
  \A t \in fb_done : ~t.update_delivered => t.error \in DispatchErrors

\* C24: an accepted receive leaves, under the task's id, exactly the task a
\* single receive of that request stores (in progress, no error, no post id),
\* whether or not the id was stored before, and touches no other entry.
C24_ReceiveIsIdempotent ==
  [][nobj' # nobj =>
       \A id \in TaskIds, type \in TaskTypes : \A data \in CoreDataOf(type) :
         HandleIncomingTask(id, type, AgentId, data) =>
           /\ tasks'[id] # 0
           /\ heap'[tasks'[id]] =
                update_status(request_task(id, type, data, heap'[tasks'[id]].created_at),
                              IN_PROGRESS)
           /\ \A other \in TaskIds \ {id} : tasks'[other] = tasks[other]]_vars

\* A task id has been received twice, the second time after the first task
\* was processed: the entry of the id is the second, unprocessed, task.
C24_Witness ==
  \E id \in TaskIds :
    /\ nobj = 2
    /\ heap[1].id = id /\ heap[2].id = id
    /\ heap[1].status \in Terminal
    /\ tasks[id] = 2
    /\ heap[2].status = IN_PROGRESS

\* C25: the status of a stored task changes only in a step of the runtime's
\* own receive (the task object is created) or of its processing of that
\* task (the position of its _process_task run moves).
C25_StatusWrittenByOwnSteps ==
  [][\A o \in Objs :
       heap'[o].status # heap[o].status => (nobj' # nobj \/ pc'[o] # pc[o])]_vars

\* C26: every step that changes a stored task (its status or its metadata)
\* leaves updated_at at the time of that step.
C26_MutationAdvancesUpdatedAt ==
  [][\A o \in Objs : heap'[o] # heap[o] => heap'[o].updated_at = now']_vars

\* C27: the due time of every pending job is the schedule_time of its stored
\* post, and no step changes the schedule_time of a stored post.
C27_ScheduleTimeFixed ==
  /\ [](\A j \in jobs : j.run_date = posts[j.id].schedule_time)
  /\ [][\A p \in PostIds :
          posts[p] # NoPost => posts'[p].schedule_time = posts[p].schedule_time]_vars

\* The job of a post has fired, the post has been published and a status
\* update for it has been handled.
C27_Witness ==
  \E p \in PostIds :
    /\ appended[p]
    /\ posts[p].status = PUBLISHED
    /\ posts[p].platform_post_ids # {}
    /\ posts[p].schedule_time = "2030-01-01T00:00:00+00:00"

\* C28: a post whose publication has run to its end with every one of its
\* dispatches failed is not left with status published.
C28_AllDispatchesFailedIsNotPublished ==
  \A p \in PostIds :
    (/\ PublicationSettled(p)
     /\ \E r \in dispatched : r.post_id = p
     /\ \A r \in dispatched : r.post_id = p => ~r.delivered)
      => posts[p].status # PUBLISHED

\* C29: when the hashtag-free body, a space and the formatted hashtags fit
\* within max_text_length, the adapted text is the whole body followed by the
\* formatted hashtags in their order in the raw text; "Hello #world #test"
\* with the limit 280 has the body "Hello", the formatted hashtags "#world",
\* "#test", and is adapted to itself.
C29_FittingTextIsNotTruncated ==
  adapted # NoContent =>
    LET body == clean_text(raw_text)
        tags == format_hashtags(extract_hashtags(raw_text), HashtagFormat)
        hashtag_text == join(tags)
    IN /\ Len(body) + 1 + Len(hashtag_text) <= max_text_length =>
            adapted.text = IF tags = <<>> THEN body
                           ELSE IF body = <<>> THEN hashtag_text
                           ELSE body \o <<" ">> \o hashtag_text
       /\ (raw_text = HelloText /\ max_text_length = TwitterLimit) =>
            /\ body = <<"H", "e", "l", "l", "o">>
            /\ tags = << <<"#", "w", "o", "r", "l", "d">>, <<"#", "t", "e", "s", "t">> >>
            /\ adapted.text = HelloText

\* "Hello #world #test" has been adapted under the limit 280.
C29_Witness ==
  /\ raw_text = HelloText
  /\ max_text_length = TwitterLimit
  /\ adapted.text = HelloText

\* C30: the adapted text is never longer than max_text_length.
C30_AdaptedTextWithinLimit ==
  adapted # NoContent => Len(adapted.text) <= max_text_length

FbDone(id) == fb_tasks[id].pc = "done"

\* C32: a publish_post task of the posting agent whose remote publish
\* returned success false has, once its processing is over, the status failed
\* and the error text of the response in its metadata.
C32_FailedPublishEndsFailed ==
  \A id \in FbTaskIds :
    (/\ FbDone(id)
     /\ fb_tasks[id].response # NoApiResponse
     /\ ~fb_tasks[id].response.success)
      => (/\ fb_tasks[id].status = FAILED
          /\ fb_tasks[id].error = fb_tasks[id].response.error)

\* The status updates sent for facebook task id.
UpdatesOf(id) == SelectSeq(fb_sent, LAMBDA u : u.task = id)

\* C33: for every publish_post task whose payload carries a
\* socialspark_post_id, from the handler's first send on exactly one
\* post_status_update has been sent, to the content scheduler agent and for
\* that post id: with status success and the platform post id when the remote
\* publish succeeded, with status failure and the error text when it failed
\* or the handler raised.  Before that none has been sent.
C33_OneStatusUpdatePerPublishTask ==
  \A id \in FbTaskIds :
    LET task == fb_tasks[id]
        d == PublishData(task.payload)
        updates == UpdatesOf(id)
    IN (task # NoFbTask /\ d.json /\ d.socialspark_post_id # 0) =>
         IF task.pc = "scheduled" THEN updates = <<>>
         ELSE /\ Len(updates) = 1
              /\ updates[1].target = AgentId
              /\ updates[1].type = "post_status_update"
              /\ updates[1].socialspark_post_id = d.socialspark_post_id
              /\ IF task.response # NoApiResponse /\ task.response.success
                 THEN /\ updates[1].status = "success"
                      /\ updates[1].platform_post_id = task.response.post_id
                      /\ task.response.post_id # <<>>
                 ELSE /\ updates[1].status = "failure"
                      /\ updates[1].error_message =
                           IF task.response # NoApiResponse THEN task.response.error
                           ELSE task.error
                      /\ updates[1].error_message \notin {"", NoError}

\* Both kinds of update have been sent: one for a task whose handler raised
\* on its payload, one for a task the API accepted.
C33_Witness ==
  \E i, j \in FbTaskIds :
    /\ FbDone(i) /\ fb_tasks[i].payload = "pub_no_user"
    /\ UpdatesOf(i) # <<>> /\ UpdatesOf(i)[1].error_message = "user_id is required"
    /\ FbDone(j) /\ fb_tasks[j].payload = "pub_ok"
    /\ UpdatesOf(j) # <<>> /\ UpdatesOf(j)[1].status = "success"

\* The number of entries of the list platforms that are platform.
Occurrences(platforms, platform) ==
  Cardinality({i \in 1..Len(platforms) : platforms[i] = platform})

\* The entries for platform that invocations of _publish_post(p) in progress
\* still have to send.
StillToSend(p, platform) ==
  LET todo(d) == IF InFlight(d, p) THEN Occurrences(drain_todo[d], platform) ELSE 0
  IN todo(STARTUP) + todo(PERIODIC)

FailsValidation(d) ==
  \/ ~d.json
  \/ d.user_id = "" \/ d.raw_text = "" \/ d.target_platforms = <<>> \/ d.schedule_time = ""
  \/ \A i \in 1..Len(d.target_platforms) : d.target_platforms[i] \notin SocialPlatform
  \/ ~fromisoformat_ok(d.schedule_time)

\* C35: the steps that process a schedule-content task whose data fails
\* validation leave the post store, the pending jobs and the Publish Queue
\* unchanged; and a post appears in the post store only in the step that
\* handles a schedule-content task whose data passed validation.
C35_InvalidScheduleTaskCreatesNothing ==
  /\ [][\A o \in Objs :
          (/\ pc'[o] # pc[o]
           /\ pc[o] \in {"scheduled", "returned"}
           /\ heap[o].type = "process_and_schedule_post"
           /\ FailsValidation(Data(heap[o].data)))
            => UNCHANGED <<posts, jobs, has_queue, publish_queue>>]_vars
  /\ [][\A p \in PostIds :
          (posts[p] = NoPost /\ posts'[p] # NoPost) =>
            \E o \in Objs :
              /\ pc[o] = "scheduled" /\ pc'[o] = "returned"
              /\ heap[o].type = "process_and_schedule_post"
              /\ ~FailsValidation(Data(heap[o].data))
              /\ heap'[o].post_id = p]_vars

\* A schedule-content task naming no supported platform has been processed:
\* its error is recorded, and the store still holds only the post of an
\* earlier run, its job pending.
C35_Witness ==
  \E o \in Objs :
    /\ pc[o] = "done"
    /\ heap[o].type = "process_and_schedule_post"
    /\ heap[o].error = "No valid target platforms specified"
    /\ heap[o].post_id = 0
    /\ StoredPosts = {1}
    /\ jobs = {[id |-> 1, run_date |-> "2030-01-01T00:00:00+00:00", arg |-> 1]}

\* The step runs the handler of post_status_update task o.
HandlesStatusUpdate(o) ==
  /\ pc[o] = "scheduled" /\ pc'[o] = "returned"
  /\ heap[o].type = "post_status_update"

\* C36: the step that handles a post_status_update task changes no post but
\* the one it names, and of that one only platform_post_ids and updated_at:
\* status, schedule_time, target platforms and adapted content stay; an
\* update that is not a success with a platform post id leaves
\* platform_post_ids as it was; when the write of the post succeeds, a success
\* update with a platform post id leaves that id under the reported platform,
\* the ids of the other platforms as they were and updated_at at the time of
\* the step; an update naming an unknown post id changes no post.
C36_StatusUpdateChangesOnlyIds ==
  [][\A o \in Objs :
       HandlesStatusUpdate(o) =>
         LET d == Data(heap[o].data)
             named == d.socialspark_post_id
             reports_id == d.status = "success" /\ d.platform_post_id # ""
         IN /\ \A p \in PostIds \ {named} : posts'[p] = posts[p]
            /\ named \in PostIds =>
                 /\ posts[named] = NoPost => posts'[named] = NoPost
                 /\ posts'[named].status = posts[named].status
                 /\ posts'[named].schedule_time = posts[named].schedule_time
                 /\ posts'[named].target_platforms = posts[named].target_platforms
                 /\ posts'[named].platform_specific_content =
                      posts[named].platform_specific_content
                 /\ ~reports_id =>
                      posts'[named].platform_post_ids = posts[named].platform_post_ids
                 /\ (/\ reports_id /\ posts[named] # NoPost
                     /\ \E task_saved \in BOOLEAN : HandlePostStatusUpdate(o, TRUE, task_saved))
                      => /\ {r \in posts'[named].platform_post_ids : r.platform = d.platform}
                              = {[platform |-> d.platform, id |-> d.platform_post_id]}
                         /\ {r \in posts'[named].platform_post_ids : r.platform # d.platform}
                              = {r \in posts[named].platform_post_ids : r.platform # d.platform}
                         /\ posts'[named].updated_at = now]_vars

\* A success update was handled after time had passed and after another
\* platform's id had been recorded: the post holds both ids and the time of
\* the later update.
C36_Witness ==
  /\ posts[1].platform_post_ids = {[platform |-> "facebook", id |-> "fb_1"],
                                  [platform |-> "twitter", id |-> "tw_1"]}
  /\ posts[1].updated_at > 0
  /\ posts[1].status = SCHEDULED

\* C37: the id a status update recorded for a platform of a post stays in the
\* stored post's platform_post_ids, whatever updates for other platforms and
\* whatever steps of the publish handler follow or come in between; and the
\* status of a stored post is written only by a step that invokes the publish
\* handler for it, to published.
C37_UpdatesDoNotOverwriteEachOther ==
  /\ [](\A r \in recorded :
          [platform |-> r.platform, id |-> r.id] \in posts[r.post_id].platform_post_ids)
  /\ [][\A p \in PostIds :
          (posts[p] # NoPost /\ posts'[p].status # posts[p].status) =>
            /\ posts'[p].status = PUBLISHED
            /\ publish_calls'[p] = publish_calls[p] + 1]_vars

\* While the publish handler for the post is in progress, the updates of both
\* platforms have been handled: the post holds both ids and is published.
C37_Witness ==
  \E d \in Drainers :
    /\ InFlight(d, 1)
    /\ posts[1].status = PUBLISHED
    /\ recorded = {[post_id |-> 1, platform |-> "facebook", id |-> "fb_1"],
                   [post_id |-> 1, platform |-> "twitter", id |-> "tw_1"]}
    /\ posts[1].platform_post_ids = {[platform |-> "facebook", id |-> "fb_1"],
                                    [platform |-> "twitter", id |-> "tw_1"]}

\* The post is in the store with adapted content for each of its target
\* platforms.
StoredWithContent(store, post_id) ==
  /\ post_id \in PostIds
  /\ store[post_id] # NoPost
  /\ \A i \in 1..Len(store[post_id].target_platforms) :
       store[post_id].target_platforms[i] \in store[post_id].platform_specific_content

\* C38: every pending deferred job and every Publish Queue entry names a
\* post that is in the post store with adapted content for each of its target
\* platforms; and a step that registers a job is a step of the schedule
\* handler in which save_post stored the post the job names.
C38_JobsAndQueueNameStoredPosts ==
  /\ [](/\ \A j \in jobs : StoredWithContent(posts, j.arg)
        /\ \A i \in 1..Len(publish_queue) : StoredWithContent(posts, publish_queue[i]))
  /\ [][\A j \in jobs' \ jobs :
          /\ posts[j.arg] = NoPost
          /\ StoredWithContent(posts', j.arg)
          /\ \E o \in Objs :
               /\ pc[o] = "scheduled" /\ pc'[o] = "returned"
               /\ heap[o].type = "process_and_schedule_post"
               /\ heap'[o].post_id = j.arg]_vars

\* A request whose save_post failed has been processed (no post, no job for
\* it), the job of a post created by a request is pending, and the id of a
\* post of an earlier run is in the Publish Queue.
C38_Witness ==
  /\ \E o \in Objs : pc[o] = "done" /\ heap[o].error = "Failed to save post"
  /\ \E j \in jobs : j.arg = 2 /\ posts[2] # NoPost
  /\ publish_queue = <<1>>

\* The firing of the post's job is under way: publish_post_wrapper has been
\* started for it and has not yet appended the id.
Firing(p) == fire_pc[p] \in {"init_queue", "append"}

\* C39: every stored post with status scheduled has a pending deferred job,
\* or a firing of its job under way, or its id in the Publish Queue, or an
\* invocation of the publish handler in progress for it.
C39_NoScheduledPostStranded ==
  \A p \in PostIds :
    (posts[p] # NoPost /\ posts[p].status = SCHEDULED) =>
      \/ JobsOf(p) # {}
      \/ Firing(p)
      \/ has_queue /\ InList(publish_queue, p)
      \/ \E d \in Drainers : InFlight(d, p)

\* The handler of Task object o has been called and is suspended at an await.
HandlerInFlight(o) == pc[o] = "running"

\* At most one handler execution is in flight for a task id.
OneExecutionPerTaskId ==
  \A o1, o2 \in Objs :
    (o1 # o2 /\ HandlerInFlight(o1) /\ HandlerInFlight(o2)) => heap[o1].id # heap[o2].id

\* The Task object whose final status _process_task writes in this step is
\* the one the table holds under its id.
CompletesStoredObject ==
  \A o \in Objs :
    (pc[o] \in {"returned", "raised"} /\ pc'[o] = "done") => tasks[heap[o].id] = o

\* C40: at most one handler execution is in flight for a task id at any
\* time, and the Task object whose status _process_task completes is the one
\* stored in the table under that id.
C40_OneExecutionPerTaskId ==
  []OneExecutionPerTaskId /\ [][CompletesStoredObject]_vars

====
